---- MODULE Spec2Model ----
(***************************************************************************)
(* Request-admission pipeline of the Supabase MCP server: the rate limiter *)
(* and its reclamation sweep (middleware/rate_limit.py), the SQL query     *)
(* validator (services/query_validator.py), the query_database tool        *)
(* (services/supabase_handler.py) and the JSON-RPC / HTTP front            *)
(* (mcp/handler.py, mcp/server.py).                                        *)
(*                                                                         *)
(* Time is counted in seconds.  datetime.now() is the variable now, which  *)
(* advances on a grid whose step is picked when the run starts.            *)
(* Every coroutine of the rate limiter runs without a suspension point     *)
(* (its only awaits are of _log_security_event, which never suspends), so  *)
(* one call is one atomic step of the event loop.                          *)
(***************************************************************************)
EXTENDS Integers, Sequences, FiniteSets, TLC

(***************************************************************************)
(* Bounds of the model.                                                    *)
(***************************************************************************)
\* settings.rate_limit_per_minute as configured for the model run
RateLimitPerMinute == 2
\* cap of the cumulative total_requests counter of one record
MaxTotalRequests == 3
\* number of clock steps of one run
MaxTicks == 13
\* capacity of the security event ring buffer in the model
MaxEvents == 1
\* number of pieces a submitted query is put together from, at most
MaxParts == 3
\* number of clock steps of one run of the authentication middleware
MaxAuthTicks == 3
\* number of cached tokens above which _set_cache sweeps, scaled down from 1000
CacheThreshold == 1

(***************************************************************************)
(* Program constants of SecurityMiddleware.                                *)
(***************************************************************************)
rate_limit_window == 60
block_duration == 900
max_violations_before_block == 5
cleanup_interval == 300
cleanup_cutoff == 3600
\* AuthenticationMiddleware._cache_ttl, in seconds
cache_ttl == 300
\* the clock step of a run of the authentication middleware
AuthStep == cache_ttl \div 2

max_requests_per_window == RateLimitPerMinute

None == -1

\* the steps the clock may take in a run
TickSteps == {rate_limit_window, cleanup_interval}
\* the windows a run behind the forwarding peer lasts
MaxForwardedTicks == 1

(***************************************************************************)
(* Client addresses.  An IPv4 address is its four octets; "unknown" is the *)
(* fallback of _get_client_ip and "not-an-ip" a header value that          *)
(* ip_address() rejects.                                                   *)
(***************************************************************************)
PublicIP == <<203, 0, 113, 1>>
Localhost == <<127, 0, 0, 1>>
TrustedIPs == {Localhost, <<172, 31, 255, 255>>}
UntrustedIPs == {PublicIP}
ClientIPs == TrustedIPs \cup UntrustedIPs

trusted_networks ==
    { [base |-> <<127, 0, 0, 0>>, prefix |-> 8],
      [base |-> <<10, 0, 0, 0>>, prefix |-> 8],
      [base |-> <<172, 16, 0, 0>>, prefix |-> 12],
      [base |-> <<192, 168, 0, 0>>, prefix |-> 16] }

IsAddress(ip) == ip \in Seq(0..255) /\ Len(ip) = 4

Pow2(n) == IF n = 0 THEN 1 ELSE IF n = 1 THEN 2 ELSE IF n = 2 THEN 4
           ELSE IF n = 3 THEN 8 ELSE IF n = 4 THEN 16 ELSE IF n = 5 THEN 32
           ELSE IF n = 6 THEN 64 ELSE IF n = 7 THEN 128 ELSE 256

\* the leading 16 bits of an address (every trusted prefix is <= 16 bits)
High16(ip) == ip[1] * 256 + ip[2]

\* client_ip in network
InNetwork(ip, net) ==
    High16(ip) \div Pow2(16 - net.prefix) = High16(net.base) \div Pow2(16 - net.prefix)

\* _is_trusted_ip with every network read as a /16
IsTrustedIpSixteen(ip) ==
    IF IsAddress(ip)
    THEN \E net \in trusted_networks : High16(ip) = High16(net.base)
    ELSE FALSE

\* SecurityMiddleware._is_trusted_ip
IsTrustedIp(ip) ==
    IF IsAddress(ip)
    THEN \E net \in trusted_networks : InNetwork(ip, net)
    ELSE FALSE

(***************************************************************************)
(* SQL text.  A query is a sequence of units: a unit is one word (a run of *)
(* word characters that the validator's patterns can only take or leave as *)
(* a whole) or one other character.  Words that stand next to each other   *)
(* form one longer word, as their characters do in the string.  No keyword *)
(* the validator looks for arises from parts of the words used here.       *)
(***************************************************************************)
WordUnits == { "select", "delete", "or", "from", "pg_catalog",
               "SELECT", "DELETE", "OR", "FROM", "PG_CATALOG" }

\* the pieces the submitted queries are put together from
QueryParts ==
    { <<"select">>, <<"delete">>, <<"or">>, <<"from", ",">>, <<"pg_catalog">>,
      <<"\n">>, <<";">>, <<"'">>, <<"-", "-">>, <<"/", "*">>, <<"*", "/">> }

RECURSIVE Flatten(_)
Flatten(parts) ==
    IF parts = <<>> THEN <<>> ELSE Head(parts) \o Flatten(Tail(parts))

\* the queries of a run: every concatenation of at most MaxParts pieces
Queries ==
    { Flatten(parts) : parts \in UNION { [1..n -> QueryParts] : n \in 0..MaxParts } }

IsWord(u) == u \in WordUnits

\* a character that \s matches and str.strip() removes
IsSpace(u) == u \in {" ", "\n"}

\* len() of a unit
UnitLen(u) ==
    CASE u \in {"select", "delete", "SELECT", "DELETE"} -> 6
      [] u \in {"or", "OR"} -> 2
      [] u \in {"from", "FROM"} -> 4
      [] u \in {"pg_catalog", "PG_CATALOG"} -> 10
      [] OTHER -> 1

RECURSIVE TextLen(_)
TextLen(q) == IF q = <<>> THEN 0 ELSE UnitLen(Head(q)) + TextLen(Tail(q))

\* str.upper()
UpperUnit(u) ==
    CASE u = "select" -> "SELECT"
      [] u = "delete" -> "DELETE"
      [] u = "or" -> "OR"
      [] u = "from" -> "FROM"
      [] u = "pg_catalog" -> "PG_CATALOG"
      [] OTHER -> u

RECURSIVE Upper(_)
Upper(q) == IF q = <<>> THEN <<>> ELSE <<UpperUnit(Head(q))>> \o Upper(Tail(q))

\* str.lstrip(), str.rstrip(), str.strip()
RECURSIVE LStrip(_)
LStrip(q) == IF q # <<>> /\ IsSpace(Head(q)) THEN LStrip(Tail(q)) ELSE q

RECURSIVE RStrip(_)
RStrip(q) ==
    IF q # <<>> /\ IsSpace(q[Len(q)]) THEN RStrip(SubSeq(q, 1, Len(q) - 1)) ELSE q

Strip(q) == LStrip(RStrip(q))

\* str.rstrip(';')
RECURSIVE RStripSemicolons(_)
RStripSemicolons(q) ==
    IF q # <<>> /\ q[Len(q)] = ";"
    THEN RStripSemicolons(SubSeq(q, 1, Len(q) - 1))
    ELSE q

\* re.sub(r'--.*$', '', query, flags=re.MULTILINE): from each -- to the end
\* of its line; the newline stays
RECURSIVE DropToEol(_)
DropToEol(q) == IF q = <<>> \/ Head(q) = "\n" THEN q ELSE DropToEol(Tail(q))

RECURSIVE RemoveLineComments(_)
RemoveLineComments(q) ==
    IF q = <<>> THEN <<>>
    ELSE IF Len(q) >= 2 /\ q[1] = "-" /\ q[2] = "-"
    THEN RemoveLineComments(DropToEol(q))
    ELSE <<Head(q)>> \o RemoveLineComments(Tail(q))

\* re.sub(r'/\*.*?\*/', '', query, flags=re.DOTALL): from each /* to the first
\* */ after it; a /* that is never closed stays
RECURSIVE HasClose(_)
HasClose(q) ==
    IF Len(q) < 2 THEN FALSE
    ELSE IF q[1] = "*" /\ q[2] = "/" THEN TRUE
    ELSE HasClose(Tail(q))

RECURSIVE AfterClose(_)
AfterClose(q) ==
    IF Len(q) < 2 THEN <<>>
    ELSE IF q[1] = "*" /\ q[2] = "/" THEN SubSeq(q, 3, Len(q))
    ELSE AfterClose(Tail(q))

RECURSIVE RemoveBlockComments(_)
RemoveBlockComments(q) ==
    IF q = <<>> THEN <<>>
    ELSE IF Len(q) >= 2 /\ q[1] = "/" /\ q[2] = "*" /\ HasClose(SubSeq(q, 3, Len(q)))
    THEN RemoveBlockComments(AfterClose(SubSeq(q, 3, Len(q))))
    ELSE <<Head(q)>> \o RemoveBlockComments(Tail(q))

\* re.sub(r'\s+', ' ', query)
RECURSIVE CollapseWhitespace(_)
CollapseWhitespace(q) ==
    IF q = <<>> THEN <<>>
    ELSE IF IsSpace(Head(q)) THEN <<" ">> \o CollapseWhitespace(LStrip(q))
    ELSE <<Head(q)>> \o CollapseWhitespace(Tail(q))

\* QueryValidator._normalize_query
NormalizeQuery(q) ==
    Upper(Strip(CollapseWhitespace(RemoveBlockComments(RemoveLineComments(q)))))

\* QueryValidator._sanitize_query
SanitizeQuery(q) ==
    LET one == IF RStrip(q) # <<>> /\ RStrip(q)[Len(RStrip(q))] = ";"
               THEN RStripSemicolons(q) \o <<";">>
               ELSE q
    IN  Strip(CollapseWhitespace(RemoveBlockComments(RemoveLineComments(one))))

(***************************************************************************)
(* QueryValidator: the scans of the normalized query.  A finding is the    *)
(* pair of its message and the thing found.                                *)
(***************************************************************************)
\* \bw\b matches at unit i of q
WordAt(q, i, w) ==
    /\ q[i] = w
    /\ i = 1 \/ ~IsWord(q[i - 1])
    /\ i = Len(q) \/ ~IsWord(q[i + 1])

\* the two characters a b stand at units i, i+1 of q
PairAt(q, i, a, b) == i < Len(q) /\ q[i] = a /\ q[i + 1] = b

\* u in q, for u one unit
Contains(q, u) == \E i \in 1..Len(q) : q[i] = u

\* "ab" in q, for a and b single characters
ContainsPair(q, a, b) == \E i \in 1..Len(q) : PairAt(q, i, a, b)

\* self.injection_patterns, by name and in order
injection_patterns ==
    << "union_select", "stacked_comment", "tautology",
       "function_probe", "hex_literal", "time_delay" >>

\* words that end in char, ascii, substring, length or version
ProbeFunctions == {"CHAR", "ASCII", "SUBSTRING", "LENGTH", "VERSION"}

\* units that hold 0x or \x followed by a hex digit
HexLiteralUnits == {}

\* pattern.search(query) for the pattern named p; re.IGNORECASE on a query
\* that _normalize_query has put in upper case
MatchesPattern(q, p) ==
    CASE p = "union_select" ->
            \E i \in 1..Len(q) :
                /\ \E w \in {"UNION", "OR", "AND"} : WordAt(q, i, w)
                /\ \E j \in (i + 1)..Len(q) :
                      \E w \in {"SELECT", "INSERT", "UPDATE", "DELETE"} : WordAt(q, j, w)
      [] p = "stacked_comment" ->
            \E i \in 1..Len(q) :
                /\ q[i] = ";"
                /\ \E j \in (i + 1)..Len(q) :
                      PairAt(q, j, "-", "-") \/ q[j] = "#" \/ PairAt(q, j, "/", "*")
      [] p = "tautology" ->
            \E j \in 1..Len(q) :
                /\ q[j] = "="
                /\ \E w \in {"OR", "AND"} :
                      /\ \E i \in 1..(j - 1) : WordAt(q, i, w)
                      /\ \E k \in (j + 1)..Len(q) : WordAt(q, k, w)
      [] p = "function_probe" ->
            \E i \in 1..Len(q) : q[i] \in ProbeFunctions /\ PairAt(q, i, q[i], "(")
      [] p = "hex_literal" ->
            \E i \in 1..Len(q) : q[i] \in HexLiteralUnits
      [] p = "time_delay" ->
            \E i \in 1..Len(q) : WordAt(q, i, "WAITFOR") \/ WordAt(q, i, "DELAY")

\* the number of single quotes in q
RECURSIVE CountQuotes(_)
CountQuotes(q) ==
    IF q = <<>> THEN 0
    ELSE (IF Head(q) = "'" THEN 1 ELSE 0) + CountQuotes(Tail(q))

\* a list with one finding per element of items
RECURSIVE Findings(_, _)
Findings(message, items) ==
    IF items = <<>> THEN <<>>
    ELSE << <<message, Head(items)>> >> \o Findings(message, Tail(items))

\* QueryValidator._check_sql_injection
CheckSqlInjection(q) ==
    Findings("Potential SQL injection detected",
             SelectSeq(injection_patterns, LAMBDA p : MatchesPattern(q, p)))
    \o (IF CountQuotes(q) % 2 # 0
        THEN << <<"Unmatched single quotes detected", "'">> >> ELSE <<>>)
    \o (IF ContainsPair(q, "-", "-") \/ ContainsPair(q, "/", "*")
        THEN << <<"SQL comments detected - potential injection attempt", "--">> >>
        ELSE <<>>)

\* self.dangerous_keywords
dangerous_keywords ==
    { "DROP", "DELETE", "TRUNCATE", "ALTER", "CREATE", "GRANT", "REVOKE",
      "INSERT", "UPDATE", "REPLACE", "MERGE", "CALL", "EXEC", "EXECUTE",
      "SHUTDOWN", "KILL", "LOAD", "OUTFILE", "DUMPFILE", "INTO OUTFILE",
      "LOAD_FILE", "BENCHMARK", "SLEEP" }

\* the elements of a set in the order a loop over it visits them
RECURSIVE SetToSeq(_)
SetToSeq(S) ==
    IF S = {} THEN <<>>
    ELSE LET x == CHOOSE y \in S : TRUE IN <<x>> \o SetToSeq(S \ {x})

\* QueryValidator._check_dangerous_operations
CheckDangerousOperations(q) ==
    Findings("Dangerous operation detected",
             SetToSeq({ q[i] : i \in { k \in 1..Len(q) :
                                          q[k] \in dangerous_keywords /\ WordAt(q, k, q[k]) } }))
    \o (IF Contains(RStripSemicolons(q), ";")
        THEN << <<"Multiple SQL statements detected", ";">> >> ELSE <<>>)
    \o (IF \E i \in 1..Len(q) : \E w \in {"CALL", "EXEC", "EXECUTE"} : WordAt(q, i, w)
        THEN << <<"Stored procedure execution detected", "CALL">> >> ELSE <<>>)

\* self.protected_schemas, as schema.upper() gives them
protected_schemas ==
    { "INFORMATION_SCHEMA", "PG_CATALOG", "PG_TOAST", "PG_TEMP",
      "PG_TOAST_TEMP", "PUBLIC.PG_STAT", "PUBLIC.PG_SETTINGS" }

\* QueryValidator._check_protected_schemas
CheckProtectedSchemas(q) ==
    Findings("Access to protected schema detected",
             SetToSeq({ schema \in protected_schemas : Contains(q, schema) }))

\* len(re.findall(r'\(.*SELECT.*\)', query)): the normalized query is one
\* line, so the greedy match runs from the first ( to the last ) and no
\* second match can follow it
SubqueryCount(q) ==
    IF \E i \in 1..Len(q) :
          /\ q[i] = "("
          /\ \E j \in (i + 1)..Len(q) :
                q[j] = "SELECT" /\ \E k \in (j + 1)..Len(q) : q[k] = ")"
    THEN 1 ELSE 0

\* len(re.findall(r'\bJOIN\b', query))
JoinCount(q) == Cardinality({ i \in 1..Len(q) : WordAt(q, i, "JOIN") })

\* QueryValidator._check_query_complexity
CheckQueryComplexity(q) ==
    (IF SubqueryCount(q) > 3
     THEN << <<"High number of subqueries detected", "SELECT">> >> ELSE <<>>)
    \o (IF JoinCount(q) > 5
        THEN << <<"High number of joins detected", "JOIN">> >> ELSE <<>>)
    \o (IF TextLen(q) > 5000
        THEN << <<"Very long query detected - may impact performance", "">> >> ELSE <<>>)
    \o (IF /\ Contains(q, "FROM") /\ Contains(q, ",")
           /\ ~Contains(q, "WHERE") /\ ~Contains(q, "JOIN")
        THEN << <<"Potential cartesian product detected - missing WHERE clause", ",">> >>
        ELSE <<>>)

(***************************************************************************)
(* QueryRiskLevel and QueryValidator.validate_query                        *)
(***************************************************************************)
\* the members of QueryRiskLevel, by their values
QueryRiskLevel == {"safe", "low", "medium", "high", "dangerous"}

\* the characters of a member's value, as code points
Value(level) ==
    CASE level = "safe" -> <<115, 97, 102, 101>>
      [] level = "low" -> <<108, 111, 119>>
      [] level = "medium" -> <<109, 101, 100, 105, 117, 109>>
      [] level = "high" -> <<104, 105, 103, 104>>
      [] level = "dangerous" -> <<100, 97, 110, 103, 101, 114, 111, 117, 115>>

\* a < b for two strings
RECURSIVE StrLess(_, _)
StrLess(a, b) ==
    IF b = <<>> THEN FALSE
    ELSE IF a = <<>> THEN TRUE
    ELSE IF Head(a) < Head(b) THEN TRUE
    ELSE IF Head(a) > Head(b) THEN FALSE
    ELSE StrLess(Tail(a), Tail(b))

\* max(a, b, key=lambda x: x.value): the first of the two unless the value of
\* the second is greater
MaxByValue(a, b) == IF StrLess(Value(a), Value(b)) THEN b ELSE a

\* sanitized_query = None
NoQuery == <<"None">>

\* the call of ValidationResult(...) at the top of validate_query gives no
\* warnings, a field without a default: it raises TypeError
RaisedTypeError ==
    [ raised |-> "TypeError", is_valid |-> FALSE, risk_level |-> "safe",
      issues |-> <<>>, warnings |-> <<>>, sanitized_query |-> NoQuery,
      requires_confirmation |-> FALSE ]

\* QueryValidator.validate_query
ValidateQuery(query, allow_modifications) ==
    IF Strip(query) = <<>> THEN RaisedTypeError
    ELSE
    LET stripped == Strip(query)
        normalized_query == NormalizeQuery(stripped)
        injection_issues == CheckSqlInjection(normalized_query)
        dangerous_ops == CheckDangerousOperations(normalized_query)
        schema_issues == CheckProtectedSchemas(normalized_query)
        complexity_warnings == CheckQueryComplexity(normalized_query)
        risk1 == IF injection_issues # <<>> THEN "dangerous" ELSE "safe"
        risk2 == IF dangerous_ops = <<>> THEN risk1
                 ELSE IF allow_modifications THEN MaxByValue(risk1, "high")
                 ELSE "dangerous"
        risk3 == IF schema_issues # <<>> THEN MaxByValue(risk2, "medium") ELSE risk2
        risk4 == IF complexity_warnings # <<>> THEN MaxByValue(risk3, "low") ELSE risk3
        issues == injection_issues
                  \o (IF allow_modifications THEN <<>> ELSE dangerous_ops)
        warnings == (IF allow_modifications THEN dangerous_ops ELSE <<>>)
                    \o schema_issues \o complexity_warnings
    IN  [ raised |-> "",
          is_valid |-> issues = <<>>,
          risk_level |-> risk4,
          issues |-> issues,
          warnings |-> warnings,
          sanitized_query |-> IF issues = <<>> THEN SanitizeQuery(stripped) ELSE NoQuery,
          requires_confirmation |-> dangerous_ops # <<>> /\ allow_modifications ]

\* QueryValidator.get_safe_query_suggestions
GetSafeQuerySuggestions(query) ==
    LET normalized == NormalizeQuery(query) IN
    (IF Contains(normalized, "SELECT") /\ ~Contains(normalized, "LIMIT")
     THEN <<"Consider adding a LIMIT clause to prevent large result sets">> ELSE <<>>)
    \o (IF /\ Contains(normalized, "UPDATE") \/ Contains(normalized, "DELETE")
           /\ ~Contains(normalized, "WHERE")
        THEN <<"Add a WHERE clause to limit the scope of the operation">> ELSE <<>>)
    \o (IF Contains(query, "'")
        THEN <<"Consider using parameterized queries instead of string literals">> ELSE <<>>)
    \o (IF \E w \in {"JOIN", "SUBQUERY", "UNION"} : Contains(normalized, w)
        THEN <<"Use EXPLAIN to analyze query performance">> ELSE <<>>)

(***************************************************************************)
(* State.                                                                  *)
(***************************************************************************)
VARIABLES
    now,              \* datetime.now(), seconds
    tick,             \* step of the clock in this run
    rate_limits,      \* SecurityMiddleware._rate_limits: client ip -> RateLimitInfo
    blocked_ips,      \* SecurityMiddleware._blocked_ips
    security_events,  \* SecurityMiddleware._security_events (ring buffer)
    cleanup_task,     \* None, or the instant the sleeping _cleanup_loop wakes
    last,             \* what the last operation of the middleware did
    enable_query_validation,  \* settings.enable_query_validation
    query,            \* the query text submitted to the validator or the tool
    qd_op,            \* the operation on the query: its name and arguments
    validation,       \* the ValidationResult of the operation
    tool_result,      \* the ToolResult of the operation
    db_calls,         \* the texts the operation gave database_service.execute_query
    sanitized,        \* what _sanitize_query returned, call by call
    initialized,      \* MCPHandler._initialized
    initialize_sent,  \* history: the connections whose initialize was answered with a result
    connections,      \* MCPServer.connections
    mcp_last,         \* the last request the front handled and what became of it
    token_cache,      \* AuthenticationMiddleware._token_cache
    auth_last,        \* the last call into the auth middleware and how it ended
    scan_last         \* the last call of check_security_threats and what it logged

rlVars == <<now, tick, rate_limits, blocked_ips, security_events, cleanup_task, last>>
qdVars ==
    <<enable_query_validation, query, qd_op, validation, tool_result, db_calls, sanitized>>
mcpVars == <<initialized, initialize_sent, connections, mcp_last>>
authVars == <<token_cache, auth_last>>
scanVars == <<scan_last>>
vars == <<rlVars, qdVars, mcpVars, authVars, scanVars>>

\* RateLimitInfo()
NewRateLimitInfo ==
    [ requests |-> <<>>, blocked_until |-> None, total_requests |-> 0,
      blocked_requests |-> 0, first_request |-> None, last_request |-> None ]

\* self._rate_limits[client_ip] of the defaultdict: the record, made if missing
RateInfoOf(rl, ip) == IF ip \in DOMAIN rl THEN rl[ip] ELSE NewRateLimitInfo

RateInfo(ip) == RateInfoOf(rate_limits, ip)

\* while requests and requests[0] < cutoff: requests.popleft()
RECURSIVE PopOld(_, _)
PopOld(requests, cutoff) ==
    IF requests # <<>> /\ Head(requests) < cutoff
    THEN PopOld(Tail(requests), cutoff)
    ELSE requests

\* deque(maxlen=...).append(event): the oldest entry leaves a full buffer
RingAppend(events, e) ==
    IF MaxEvents = 0 THEN <<>>
    ELSE IF Len(events) >= MaxEvents THEN Append(Tail(events), e)
    ELSE Append(events, e)

\* SecurityMiddleware._log_security_event
SecurityEvent(ip, type, severity) ==
    [client_ip |-> ip, event_type |-> type, severity |-> severity]

LogSecurityEvent(events, ip, type, severity) ==
    RingAppend(events, SecurityEvent(ip, type, severity))

(***************************************************************************)
(* Requests as the rate limiter sees them: the forwarding headers it       *)
(* reads and the peer address.  A header is None when absent, else the     *)
(* list of its comma-separated items.                                      *)
(***************************************************************************)
\* "999.999.999.999": a header item that ip_address() rejects
NotAnIp == <<999, 999, 999, 999>>
\* an absent header, and a request without a peer (request.client is None)
Absent == <<>>
\* the "unknown" that _get_client_ip falls back to
Unknown == <<0>>

Request(xff, xri, host) == [xff |-> xff, xri |-> xri, host |-> host]

\* a header that is present and whose first item ip_address() accepts
ValidHeader(h) == h # Absent /\ IsAddress(h[1])

\* _get_client_ip with the peer address taken before the headers are read
GetClientIpPeerFirst(request) ==
    IF request.host # Absent THEN request.host
    ELSE IF ValidHeader(request.xff) THEN request.xff[1]
    ELSE IF ValidHeader(request.xri) THEN request.xri[1]
    ELSE Unknown

\* SecurityMiddleware._get_client_ip: the first item of the first header of
\* headers_to_check that holds an address, else the peer
GetClientIp(request) ==
    IF ValidHeader(request.xff) THEN request.xff[1]
    ELSE IF ValidHeader(request.xri) THEN request.xri[1]
    ELSE IF request.host # Absent THEN request.host
    ELSE Unknown

\* the requests of a run of the rate limiter
Requests ==
    { Request(Absent, Absent, ip) : ip \in ClientIPs }
    \cup { Request(<<NotAnIp>>, <<PublicIP, Localhost>>, Localhost),
           Request(<<Localhost, PublicIP>>, Absent, PublicIP) }

(***************************************************************************)
(* What the variables of a part hold while that part has done nothing.     *)
(***************************************************************************)
\* no operation on a query yet
NoOperation == [name |-> "none", allow_modifications |-> FALSE, force_execute |-> FALSE]

\* validate_query was not called
NotValidated ==
    [ raised |-> "not called", is_valid |-> FALSE, risk_level |-> "safe",
      issues |-> <<>>, warnings |-> <<>>, sanitized_query |-> NoQuery,
      requires_confirmation |-> FALSE ]

\* ToolResult(content=..., is_error=...)
ToolResult(content, is_error) == [content |-> content, is_error |-> is_error]

\* no tool has returned
NoToolResult == ToolResult(<<>>, FALSE)

\* the front has handled no request
NoRequest ==
    [ channel |-> "none", client_ip |-> Absent, method |-> "", id |-> "",
      code |-> 0, message |-> "", admission |-> <<>>, authenticated |-> FALSE,
      tool_body |-> "none", retry_after |-> 0 ]

IdleRL ==
    /\ now = 0
    /\ tick = rate_limit_window
    /\ rate_limits = << >>
    /\ blocked_ips = {}
    /\ security_events = <<>>
    /\ cleanup_task = None
    /\ last = [op |-> "none", client_ip |-> Absent, outcome |-> "ok", retry_after |-> 0]

IdleQD ==
    /\ enable_query_validation = TRUE
    /\ query = <<>>
    /\ qd_op = NoOperation
    /\ validation = NotValidated
    /\ tool_result = NoToolResult
    /\ db_calls = <<>>
    /\ sanitized = <<>>

IdleMCP ==
    /\ initialized = FALSE
    /\ initialize_sent = {}
    /\ connections = {}
    /\ mcp_last = NoRequest

\* AuthContext(...); None is "" for the strings and <<>> for the permissions
AuthContext(user_id, role, is_authenticated, auth_method, permissions, expires_at) ==
    [ user_id |-> user_id, role |-> role, is_authenticated |-> is_authenticated,
      auth_method |-> auth_method, permissions |-> permissions, expires_at |-> expires_at ]

\* AuthContext(is_authenticated=False)
Unauthenticated == AuthContext("", "", FALSE, "", <<>>, None)

\* a request without any credential
NoCredentials ==
    [ x_api_key |-> "", query_api_key |-> "", bearer |-> "", x_jwt_token |-> "",
      x_service_role_key |-> "" ]

\* the auth middleware has not been called
NoAuthCall ==
    [ op |-> "none", request |-> NoCredentials, context |-> Unauthenticated,
      tried |-> <<>>, permission |-> "", raised |-> 0, at |-> 0 ]

IdleAuth ==
    /\ token_cache = <<>>
    /\ auth_last = NoAuthCall

\* check_security_threats was not called
NoScan == [request |-> Request(Absent, Absent, Absent), logged |-> <<>>]

IdleScan == scan_last = NoScan

(***************************************************************************)
(* SecurityMiddleware.check_rate_limit                                     *)
(***************************************************************************)
\* the window test with > in place of >=
WindowExceededOffByOne(requests) == Len(requests) > max_requests_per_window

\* if len(rate_info.requests) >= self.max_requests_per_window
WindowExceeded(requests) == Len(requests) >= max_requests_per_window

\* if rate_info.blocked_requests >= self.max_violations_before_block
ShouldBlock(blocked_requests) == blocked_requests >= max_violations_before_block

\* if rate_info.blocked_until and now < rate_info.blocked_until
StillBlocked(rate_info, t) == rate_info.blocked_until # None /\ t < rate_info.blocked_until

\* an accepted request appended to the timestamps as they were, the expired
\* ones included
AcceptedUnpruned(rate_info, pruned, t) ==
    [rate_info EXCEPT
        !.requests = Append(rate_info.requests, t),
        !.total_requests = @ + 1,
        !.last_request = t,
        !.first_request = IF @ = None THEN t ELSE @]

\* an accepted request that clears the violation counter
AcceptedResetsViolations(rate_info, pruned, t) ==
    [rate_info EXCEPT
        !.requests = Append(pruned, t),
        !.total_requests = @ + 1,
        !.blocked_requests = 0,
        !.last_request = t,
        !.first_request = IF @ = None THEN t ELSE @]

\* an accepted request whose increment of total_requests is lost
AcceptedUncounted(rate_info, pruned, t) ==
    [rate_info EXCEPT
        !.requests = Append(pruned, t),
        !.last_request = t,
        !.first_request = IF @ = None THEN t ELSE @]

\* the record after an accepted request at instant t
Accepted(rate_info, pruned, t) ==
    [rate_info EXCEPT
        !.requests = Append(pruned, t),
        !.total_requests = @ + 1,
        !.last_request = t,
        !.first_request = IF @ = None THEN t ELSE @]

\* how a call of check_rate_limit ended: "ok" when it returned, else the
\* exception it raised and the retry time that exception carries
Outcome(ip, kind, retry_after) ==
    [op |-> "check_rate_limit", client_ip |-> ip, outcome |-> kind, retry_after |-> retry_after]

\* the stores of the middleware after a call, and how the call ended
Checked(rl, blocked, events, outcome) ==
    [rate_limits |-> rl, blocked_ips |-> blocked, security_events |-> events, last |-> outcome]

\* check_rate_limit(request) at instant t on the stores rl, blocked, events
CheckRateLimitOn(request, rl, blocked, events, t) ==
    LET client_ip == GetClientIp(request)
        rate_info == RateInfoOf(rl, client_ip)
        pruned    == PopOld(rate_info.requests, t - rate_limit_window)
    IN
    IF IsTrustedIp(client_ip)
    THEN Checked(rl, blocked, events, Outcome(client_ip, "ok", 0))
    ELSE IF client_ip \in blocked
    THEN \* HTTPException(429, "IP address is temporarily blocked")
         Checked(rl, blocked,
                 LogSecurityEvent(events, client_ip, "blocked_request", "medium"),
                 Outcome(client_ip, "blocked", block_duration))
    ELSE IF StillBlocked(rate_info, t)
    THEN \* RateLimitExceeded(remaining_seconds)
         Checked((client_ip :> rate_info) @@ rl, blocked,
                 LogSecurityEvent(events, client_ip, "rate_limit_blocked", "low"),
                 Outcome(client_ip, "rate_limit_blocked", rate_info.blocked_until - t))
    ELSE IF WindowExceeded(pruned)
    THEN \* RateLimitExceeded(window length)
         LET violations == rate_info.blocked_requests + 1
             block == ShouldBlock(violations)
             info == [rate_info EXCEPT
                        !.requests = pruned,
                        !.blocked_requests = violations,
                        !.blocked_until = IF block THEN t + block_duration ELSE @]
             logged == IF block
                       THEN LogSecurityEvent(events, client_ip, "ip_blocked", "high")
                       ELSE events
         IN  Checked((client_ip :> info) @@ rl,
                     IF block THEN blocked \cup {client_ip} ELSE blocked,
                     LogSecurityEvent(logged, client_ip, "rate_limit_exceeded", "medium"),
                     Outcome(client_ip, "rate_limit_exceeded", rate_limit_window))
    ELSE Checked((client_ip :> Accepted(rate_info, pruned, t)) @@ rl, blocked, events,
                 Outcome(client_ip, "ok", 0))

\* the cumulative counters of the records stay within the model's range
WithinRange(rl) == \A ip \in DOMAIN rl : rl[ip].total_requests <= MaxTotalRequests

CheckRateLimit(request) ==
    LET checked == CheckRateLimitOn(request, rate_limits, blocked_ips, security_events, now)
    IN  /\ WithinRange(checked.rate_limits)
        /\ rate_limits' = checked.rate_limits
        /\ blocked_ips' = checked.blocked_ips
        /\ security_events' = checked.security_events
        /\ last' = checked.last

CallCheckRateLimit ==
    /\ \E request \in Requests : CheckRateLimit(request)
    /\ UNCHANGED <<now, tick, cleanup_task, qdVars, mcpVars, authVars, scanVars>>

(***************************************************************************)
(* SecurityMiddleware.initialize, _cleanup_loop and _cleanup_old_data      *)
(***************************************************************************)
\* records whose requests are all older than the cutoff and whose last
\* activity predates it
ExpiredIps(rl, t) ==
    { ip \in DOMAIN rl :
        /\ PopOld(rl[ip].requests, t - cleanup_cutoff) = <<>>
        /\ rl[ip].last_request # None
        /\ rl[ip].last_request < t - cleanup_cutoff }

\* the record store after the first pass of the sweep
SweptRecords(rl, t) ==
    [ ip \in (DOMAIN rl) \ ExpiredIps(rl, t) |->
        [rl[ip] EXCEPT !.requests = PopOld(@, t - cleanup_cutoff)] ]

\* rate_info and rate_info.blocked_until and now > rate_info.blocked_until
UnblockedIps(rl, blocked, t) ==
    { ip \in blocked :
        /\ ip \in DOMAIN rl
        /\ rl[ip].blocked_until # None
        /\ t > rl[ip].blocked_until }

\* the record store after the second pass of the sweep
UnblockedRecords(rl, unblocked) ==
    [ ip \in DOMAIN rl |->
        IF ip \in unblocked
        THEN [rl[ip] EXCEPT !.blocked_until = None, !.blocked_requests = 0]
        ELSE rl[ip] ]

CleanupOldData ==
    LET swept == SweptRecords(rate_limits, now)
        unblocked == UnblockedIps(swept, blocked_ips, now)
    IN  /\ rate_limits' = UnblockedRecords(swept, unblocked)
        /\ blocked_ips' = blocked_ips \ unblocked
        /\ last' = [op |-> "cleanup", client_ip |-> Absent, outcome |-> "ok", retry_after |-> 0]

\* SecurityMiddleware.initialize: the sweep task is created once
Initialize ==
    /\ cleanup_task' = IF cleanup_task = None THEN now + cleanup_interval ELSE cleanup_task
    /\ UNCHANGED <<now, tick, rate_limits, blocked_ips, security_events, last>>
    /\ UNCHANGED <<qdVars, mcpVars, authVars, scanVars>>

\* one round of _cleanup_loop: the sleep is over, the sweep runs, it sleeps again
CleanupLoop ==
    /\ cleanup_task # None
    /\ now >= cleanup_task
    /\ CleanupOldData
    /\ cleanup_task' = now + cleanup_interval
    /\ UNCHANGED <<now, tick, security_events, qdVars, mcpVars, authVars, scanVars>>

\* time passes; a sweep that is due runs before the clock moves on.  While the
\* middleware holds no record and no sweep is scheduled nothing can tell one
\* instant from another, so the clock starts with the first of either.
Tick ==
    /\ now + tick <= MaxTicks * tick
    /\ rate_limits # << >> \/ cleanup_task # None
    /\ cleanup_task = None \/ now < cleanup_task
    /\ now' = now + tick
    /\ UNCHANGED <<tick, rate_limits, blocked_ips, security_events, cleanup_task, last>>
    /\ UNCHANGED <<qdVars, mcpVars, authVars, scanVars>>

InitRL ==
    /\ now = 0
    /\ tick \in TickSteps
    /\ rate_limits = << >>
    /\ blocked_ips = {}
    /\ security_events = <<>>
    /\ cleanup_task = None
    /\ last = [op |-> "none", client_ip |-> Absent, outcome |-> "ok", retry_after |-> 0]
    /\ IdleQD
    /\ IdleMCP
    /\ IdleAuth
    /\ IdleScan

NextRL ==
    \/ CallCheckRateLimit
    \/ Initialize
    \/ CleanupLoop
    \/ Tick

SpecRL == InitRL /\ [][NextRL]_vars

(***************************************************************************)
(* The rate limiter behind one peer that forwards for several clients:     *)
(* every request carries a forwarding header, and the peer is always the   *)
(* same gateway (or the local host).                                       *)
(***************************************************************************)
\* a second client address and the address of the forwarding peer, both
\* outside the trusted ranges
OtherIP == <<198, 51, 100, 2>>
GatewayIP == <<192, 0, 2, 10>>

ForwardedRequests ==
    { Request(<<ip>>, Absent, GatewayIP) : ip \in {PublicIP, OtherIP, Localhost} }
    \cup { Request(<<NotAnIp>>, <<OtherIP, Localhost>>, GatewayIP),
           Request(Absent, <<PublicIP, GatewayIP>>, Localhost) }

CallCheckRateLimitForwarded ==
    /\ \E request \in ForwardedRequests : CheckRateLimit(request)
    /\ UNCHANGED <<now, tick, cleanup_task, qdVars, mcpVars, authVars, scanVars>>

\* time passes, over the few windows that telling the records apart takes
TickForwarded ==
    /\ now + tick <= MaxForwardedTicks * tick
    /\ Tick

InitForwarded ==
    /\ InitRL
    /\ tick = rate_limit_window

NextForwarded ==
    \/ CallCheckRateLimitForwarded
    \/ TickForwarded

SpecForwarded == InitForwarded /\ [][NextForwarded]_vars

(***************************************************************************)
(* SupabaseMCPHandler.call_tool and the query_database tool                *)
(***************************************************************************)
\* a text item of a ToolResult's content: its heading and what it lists
Text(heading, items) == [type |-> "text", heading |-> heading, items |-> items]

\* how database_service.execute_query ends: with rows, with none, or with an
\* exception
DbOutcomes == {"rows", "empty", "error"}

\* what a tool did: the validation it obtained, the texts it gave
\* execute_query, and the ToolResult it returned
Handled(v, calls, result) == [validation |-> v, db_calls |-> calls, tool_result |-> result]

\* final_query = validation.sanitized_query or query
FinalQuery(v, q) ==
    IF v.sanitized_query # NoQuery /\ v.sanitized_query # <<>>
    THEN v.sanitized_query
    ELSE q

\* the branching with force_execute consulted before the validity
BranchForceFirst(v, force_execute) ==
    IF force_execute THEN "execute"
    ELSE IF ~v.is_valid THEN "rejected"
    ELSE IF v.requires_confirmation THEN "confirmation"
    ELSE "execute"

\* the branch of _handle_query_database a validation leads to:
\* "if not validation.is_valid", then
\* "if validation.requires_confirmation and not force_execute"
Branch(v, force_execute) ==
    IF ~v.is_valid THEN "rejected"
    ELSE IF v.requires_confirmation /\ ~force_execute THEN "confirmation"
    ELSE "execute"

\* the content of the result of an executed query
ExecutedContent(v, db_outcome) ==
    << Text("Query executed successfully", <<>>) >>
    \o (IF v.risk_level # "safe" THEN << Text("Risk level", <<v.risk_level>>) >> ELSE <<>>)
    \o (IF db_outcome = "rows"
        THEN << Text("Results", <<>>) >>
        ELSE << Text("Query completed. Rows affected", <<>>) >>)

\* SupabaseMCPHandler._handle_query_database; allow is
\* settings.enable_query_validation
HandleQueryDatabase(arguments, allow, db_outcome) ==
    LET q == arguments.query
        v == ValidateQuery(q, allow)
        warned == IF v.warnings # <<>> THEN << Text("Warnings", v.warnings) >> ELSE <<>>
    IN
    IF Strip(q) = <<>>
    THEN Handled(NotValidated, <<>>,
                 ToolResult(<< Text("Error: Query cannot be empty", <<>>) >>, TRUE))
    ELSE IF v.raised # ""
    THEN Handled(v, <<>>, ToolResult(<< Text("Database query failed", <<>>) >>, TRUE))
    ELSE IF Branch(v, arguments.force_execute) = "rejected"
    THEN Handled(v, <<>>,
                 ToolResult(<< Text("Query validation failed", v.issues) >>
                            \o (IF GetSafeQuerySuggestions(q) # <<>>
                                THEN << Text("Suggestions", GetSafeQuerySuggestions(q)) >>
                                ELSE <<>>),
                            TRUE))
    ELSE IF Branch(v, arguments.force_execute) = "confirmation"
    THEN Handled(v, <<>>,
                 ToolResult(warned
                            \o << Text("This query requires confirmation", <<v.risk_level>>),
                                  Text("To execute this query, add 'force_execute': true", <<>>) >>,
                            FALSE))
    ELSE IF db_outcome = "error"
    THEN Handled(v, << FinalQuery(v, q) >>,
                 ToolResult(<< Text("Database query failed", <<>>) >>, TRUE))
    ELSE Handled(v, << FinalQuery(v, q) >>,
                 ToolResult(warned \o ExecutedContent(v, db_outcome), FALSE))

\* self._tools: the tools _register_tools registers
RegisteredTools ==
    {"query_database", "get_schema", "crud_operations", "storage_operations", "get_metrics"}

\* SupabaseMCPHandler.call_tool.  The bodies of the tools other than
\* query_database are taken as a whole: they return a result or an error
\* result; an unknown name raises ValueError, which becomes an error result
CallTool(name, arguments, allow, db_outcome) ==
    IF name = "query_database" THEN HandleQueryDatabase(arguments, allow, db_outcome)
    ELSE IF name \in RegisteredTools
    THEN Handled(NotValidated, <<>>, ToolResult(<< Text(name, <<>>) >>, db_outcome = "error"))
    ELSE Handled(NotValidated, <<>>,
                 ToolResult(<< Text("Error executing tool", <<name>>) >>, TRUE))

\* a direct call of query_validator.validate_query on the submitted text
CallValidateQuery ==
    /\ qd_op.name = "none"
    /\ \E allow \in BOOLEAN :
        /\ qd_op' = [name |-> "validate_query", allow_modifications |-> allow,
                     force_execute |-> FALSE]
        /\ validation' = ValidateQuery(query, allow)
    /\ UNCHANGED <<enable_query_validation, query, tool_result, db_calls, sanitized>>
    /\ UNCHANGED <<rlVars, mcpVars, authVars, scanVars>>

\* call_tool("query_database", {"query": ..., "force_execute": ...})
CallQueryDatabase ==
    /\ qd_op.name = "none"
    /\ \E force \in BOOLEAN, db_outcome \in DbOutcomes :
        LET handled == CallTool("query_database",
                                [query |-> query, force_execute |-> force],
                                enable_query_validation, db_outcome)
        IN  /\ qd_op' = [name |-> "query_database",
                         allow_modifications |-> enable_query_validation,
                         force_execute |-> force]
            /\ validation' = handled.validation
            /\ tool_result' = handled.tool_result
            /\ db_calls' = handled.db_calls
    /\ UNCHANGED <<enable_query_validation, query, sanitized, rlVars, mcpVars, authVars, scanVars>>

\* query_validator._sanitize_query on the submitted text, and once more on
\* what it returned
CallSanitizeQuery ==
    /\ qd_op.name = "none"
    /\ qd_op' = [name |-> "sanitize_query", allow_modifications |-> FALSE,
                 force_execute |-> FALSE]
    /\ sanitized' = << SanitizeQuery(query), SanitizeQuery(SanitizeQuery(query)) >>
    /\ UNCHANGED <<enable_query_validation, query, validation, tool_result, db_calls>>
    /\ UNCHANGED <<rlVars, mcpVars, authVars, scanVars>>

InitQD ==
    /\ IdleRL
    /\ IdleMCP
    /\ IdleAuth
    /\ IdleScan
    /\ enable_query_validation \in BOOLEAN
    /\ query \in Queries
    /\ qd_op = NoOperation
    /\ validation = NotValidated
    /\ tool_result = NoToolResult
    /\ db_calls = <<>>
    /\ sanitized = <<>>

NextQD ==
    \/ CallValidateQuery
    \/ CallQueryDatabase
    \/ CallSanitizeQuery

SpecQD == InitQD /\ [][NextQD]_vars

(***************************************************************************)
(* The front: the WebSocket endpoint /mcp (MCPServer, MCPHandler) and the  *)
(* HTTP route GET /mcp/tools.                                              *)
(***************************************************************************)
\* the WebSocket connections of a run and the peer address of each
Connections == {"ws-1"}
Peer(conn) == IF conn = "ws-1" THEN PublicIP ELSE Localhost

\* the queries that tools/call messages carry
McpQueries == { <<"select">>, <<"delete">> }

\* a JSON-RPC message as process_message sees it: whether it parses into an
\* MCPRequest, its method, whether its params fit the method's params model,
\* and for tools/call the tool name and arguments
Message(method, valid_params, name, q, force) ==
    [ id |-> "1", method |-> method, valid_params |-> valid_params,
      name |-> name, query |-> q, force_execute |-> force ]

Methods ==
    {"initialize", "tools/list", "tools/call", "resources/list", "resources/read", "ping"}

Messages ==
    { Message("<malformed>", FALSE, "", <<>>, FALSE) }
    \cup { Message(method, TRUE, "", <<>>, FALSE) : method \in Methods \ {"tools/call"} }
    \cup { Message(method, FALSE, "", <<>>, FALSE) : method \in {"initialize", "tools/call"} }
    \cup { Message("tools/call", TRUE, name, <<>>, FALSE) : name \in {"get_schema", "no_such_tool"} }
    \cup { Message("tools/call", TRUE, "query_database", q, force) :
             q \in McpQueries, force \in BOOLEAN }

\* what became of a request: on the WebSocket the id and error code of the
\* MCPResponse (code 0 for a result), on HTTP the status code; the admission
\* checks that ran for the request, in order, and whether the request was
\* authenticated; the tool whose body ran
Served(channel, ip, method, id, code, message, admission, authenticated, tool_body, retry_after) ==
    [ channel |-> channel, client_ip |-> ip, method |-> method, id |-> id,
      code |-> code, message |-> message, admission |-> admission,
      authenticated |-> authenticated, tool_body |-> tool_body, retry_after |-> retry_after ]

\* MCPResponse(id=..., error=MCPError(code=...)) sent on the WebSocket
WsError(conn, msg, id, code, message) ==
    /\ mcp_last' = Served("ws", Peer(conn), msg.method, id, code, message, <<>>, FALSE,
                          "none", 0)
    /\ UNCHANGED <<initialized, initialize_sent, qdVars>>

\* MCPResponse(id=request.id, result=...) sent on the WebSocket
WsResult(conn, msg) ==
    mcp_last' = Served("ws", Peer(conn), msg.method, msg.id, 0, "", <<>>, FALSE, "none", 0)

\* websocket.accept() and the registration of the connection
WsConnect ==
    /\ \E conn \in Connections \ connections : connections' = connections \cup {conn}
    /\ UNCHANGED <<initialized, initialize_sent, mcp_last, rlVars, qdVars, authVars, scanVars>>

\* WebSocketDisconnect with a session that ends with the connection that
\* opened it
WsDisconnectEndsSession ==
    /\ \E conn \in connections :
          /\ connections' = connections \ {conn}
          /\ initialized' = (initialized /\ conn \notin initialize_sent)
    /\ UNCHANGED <<initialize_sent, mcp_last, rlVars, qdVars, authVars, scanVars>>

\* WebSocketDisconnect: the connection is dropped from the registry
WsDisconnect ==
    /\ \E conn \in connections : connections' = connections \ {conn}
    /\ UNCHANGED <<initialized, initialize_sent, mcp_last, rlVars, qdVars, authVars, scanVars>>

\* the message of the exception a request ends with, "" when it is served,
\* with resources/read served before the session is initialized
RequestErrorUngatedRead(msg, is_initialized) ==
    CASE msg.method = "<malformed>" -> "Invalid MCP message"
      [] msg.method = "initialize" ->
            IF msg.valid_params THEN "" ELSE "validation error"
      [] msg.method \in {"tools/list", "resources/list"} ->
            IF is_initialized THEN "" ELSE "Session not initialized"
      [] msg.method = "resources/read" ->
            IF ~msg.valid_params THEN "validation error"
            ELSE "Resource not found"
      [] msg.method = "tools/call" ->
            IF ~is_initialized THEN "Session not initialized"
            ELSE IF ~msg.valid_params THEN "validation error"
            ELSE IF msg.name \notin RegisteredTools THEN "Unknown tool"
            ELSE ""
      [] OTHER -> "Unknown method"

\* the message of the exception a request ends with in deserialize_mcp_message,
\* handle_request or the handler of its method, "" when it is served
RequestError(msg, is_initialized) ==
    CASE msg.method = "<malformed>" -> "Invalid MCP message"
      [] msg.method = "initialize" ->
            IF msg.valid_params THEN "" ELSE "validation error"
      [] msg.method \in {"tools/list", "resources/list"} ->
            IF is_initialized THEN "" ELSE "Session not initialized"
      [] msg.method = "resources/read" ->
            IF ~is_initialized THEN "Session not initialized"
            ELSE IF ~msg.valid_params THEN "validation error"
            ELSE "Resource not found"
      [] msg.method = "tools/call" ->
            IF ~is_initialized THEN "Session not initialized"
            ELSE IF ~msg.valid_params THEN "validation error"
            ELSE IF msg.name \notin RegisteredTools THEN "Unknown tool"
            ELSE ""
      [] OTHER -> "Unknown method"

\* one round of the loop of handle_websocket_connection: receive_text,
\* process_message (deserialize_mcp_message, MCPHandler.handle_request and
\* the handler of the method), send_text
WsMessage ==
    /\ \E conn \in connections, msg \in Messages, db_outcome \in DbOutcomes :
        LET raised == RequestError(msg, initialized)
        IN  IF msg.method = "<malformed>"
            THEN \* deserialize_mcp_message raises ValueError
                 WsError(conn, msg, "unknown", -32700, raised)
            ELSE IF raised # ""
            THEN \* handle_request: except Exception
                 WsError(conn, msg, msg.id, -32603, raised)
            ELSE IF msg.method = "initialize"
            THEN /\ initialized' = TRUE
                 /\ initialize_sent' = initialize_sent \cup {conn}
                 /\ WsResult(conn, msg)
                 /\ UNCHANGED qdVars
            ELSE IF msg.method \in {"tools/list", "resources/list"}
            THEN WsResult(conn, msg) /\ UNCHANGED <<initialized, initialize_sent, qdVars>>
            ELSE \* tools/call
                 LET handled == CallTool(msg.name,
                                         [query |-> msg.query, force_execute |-> msg.force_execute],
                                         enable_query_validation, db_outcome)
                 IN  /\ mcp_last' = Served("ws", Peer(conn), msg.method, msg.id, 0, "",
                                             <<>>, FALSE, msg.name, 0)
                     /\ query' = msg.query
                     /\ qd_op' = [name |-> msg.name,
                                  allow_modifications |-> enable_query_validation,
                                  force_execute |-> msg.force_execute]
                     /\ validation' = handled.validation
                     /\ tool_result' = handled.tool_result
                     /\ db_calls' = handled.db_calls
                     /\ UNCHANGED <<initialized, initialize_sent, enable_query_validation, sanitized>>
    /\ UNCHANGED <<connections, rlVars, authVars, scanVars>>

\* the requests of GET /mcp/tools in a run: the peer, the User-Agent, the
\* query string and the X-API-Key header (no forwarding header, no token)
HttpRequest(host, user_agent, query_string, api_key) ==
    [ xff |-> Absent, xri |-> Absent, host |-> host, user_agent |-> user_agent,
      query_string |-> query_string, api_key |-> api_key ]

\* settings.mcp_api_key
mcp_api_key == "mcp-api-key"

HttpRequests ==
    { HttpRequest(host, user_agent, query_string, api_key) :
        host \in {PublicIP, Localhost}, user_agent \in {"curl", "sqlmap"},
        query_string \in {<<>>}, api_key \in {mcp_api_key, "wrong-key"} }

\* self.suspicious_user_agents
suspicious_user_agents ==
    {"sqlmap", "nikto", "nmap", "masscan", "zap", "burp", "bot", "crawler", "spider", "scraper"}

\* the patterns of _check_suspicious_url, by the event each logs
sql_patterns ==
    { "union select", "drop table", "insert into", "delete from", "update set", "exec(",
      "execute(", "sp_", "xp_", "0x", "char(", "ascii(", "substring(", "waitfor delay" }
xss_patterns ==
    { "<script", "javascript:", "onload=", "onerror=", "onclick=", "eval(", "alert(",
      "document.cookie", "window.location" }
traversal_patterns ==
    { "../", "..\\", "%2e%2e%2f", "%2e%2e%5c", "....//", "....\\\\",
      "/etc/passwd", "/etc/shadow", "c:\\windows", "c:/windows" }

\* "pattern in full_url" for some pattern of a family; the URL is a list of
\* pieces, chosen so that no pattern runs across two of them
UrlMatches(url, patterns) == \E i \in DOMAIN url : url[i] \in patterns

\* the event a finding makes
Finding(found, ip, type, severity) ==
    IF found THEN << SecurityEvent(ip, type, severity) >> ELSE <<>>

\* check_security_threats with the three URL scans chained by elif
ThreatEventsFirstFamily(request) ==
    LET ip == GetClientIp(request)
        url == request.query_string
    IN  Finding(request.user_agent \in suspicious_user_agents, ip,
                "suspicious_user_agent", "medium")
        \o Finding(Len(request.xff) > 3, ip, "potential_proxy_abuse", "low")
        \o Finding(Len(request.xri) > 3, ip, "potential_ip_spoofing", "low")
        \o Finding(UrlMatches(url, sql_patterns), ip, "sql_injection_attempt", "high")
        \o Finding(~UrlMatches(url, sql_patterns) /\ UrlMatches(url, xss_patterns), ip,
                   "xss_attempt", "high")
        \o Finding(/\ ~UrlMatches(url, sql_patterns) /\ ~UrlMatches(url, xss_patterns)
                   /\ UrlMatches(url, traversal_patterns), ip,
                   "path_traversal_attempt", "high")

\* the events one call of check_security_threats logs, in order: each loop
\* over the patterns of a family breaks at the first pattern found
ThreatEvents(request) ==
    LET ip == GetClientIp(request)
        url == request.query_string
    IN  Finding(request.user_agent \in suspicious_user_agents, ip,
                "suspicious_user_agent", "medium")
        \o Finding(Len(request.xff) > 3, ip, "potential_proxy_abuse", "low")
        \o Finding(Len(request.xri) > 3, ip, "potential_ip_spoofing", "low")
        \o Finding(UrlMatches(url, sql_patterns), ip, "sql_injection_attempt", "high")
        \o Finding(UrlMatches(url, xss_patterns), ip, "xss_attempt", "high")
        \o Finding(UrlMatches(url, traversal_patterns), ip, "path_traversal_attempt", "high")

\* the event log after these events were logged one by one
RECURSIVE LogAll(_, _)
LogAll(events, logged) ==
    IF logged = <<>> THEN events
    ELSE LogAll(RingAppend(events, Head(logged)), Tail(logged))

\* SecurityMiddleware.check_security_threats: it only logs events
CheckSecurityThreats(request, events) == LogAll(events, ThreatEvents(request))

\* the pieces the URLs of a run are put together from: a harmless one, two
\* of the SQL family, one of the XSS family and one of the traversal family
UrlPieces == {"id=1", "union select", "0x", "<script", "../"}

\* the requests check_security_threats is called with in a run
ThreatRequest(xff, host, user_agent, url) ==
    [ xff |-> xff, xri |-> Absent, host |-> host, user_agent |-> user_agent,
      query_string |-> url ]
ThreatRequests ==
    { ThreatRequest(xff, PublicIP, user_agent, url) :
        xff \in {Absent, <<PublicIP, Localhost, Localhost, Localhost>>},
        user_agent \in {"curl", "sqlmap"},
        url \in UNION { [1..n -> UrlPieces] : n \in 0..2 } }

\* one call of check_security_threats
CallCheckSecurityThreats ==
    /\ \E request \in ThreatRequests :
          /\ security_events' = CheckSecurityThreats(request, security_events)
          /\ scan_last' = [request |-> request, logged |-> ThreatEvents(request)]
          /\ last' = [op |-> "check_security_threats", client_ip |-> GetClientIp(request),
                      outcome |-> "ok", retry_after |-> 0]
    /\ UNCHANGED <<now, tick, rate_limits, blocked_ips, cleanup_task>>
    /\ UNCHANGED <<qdVars, mcpVars, authVars>>

\* calls of check_rate_limit and of check_security_threats in any order
NextScan ==
    \/ CallCheckRateLimit
    \/ CallCheckSecurityThreats

SpecScan == InitRL /\ [][NextScan]_vars

\* AuthMiddleware.authenticate_request for a request whose only credential is
\* the X-API-Key header: is_authenticated of the context it returns
AuthenticateRequest(request) == request.api_key = mcp_api_key

\* the route GET /mcp/tools: initialize, check_rate_limit,
\* check_security_threats, authenticate_request (which returns a context for
\* every request: an unauthenticated one when no credential fits),
\* handler.list_tools.  RateLimitExceeded becomes a 429 with Retry-After; the
\* HTTPException of the blocked branch is caught by "except Exception" and
\* becomes a 200 whose body is {"error": ...}
HttpListTools ==
    /\ \E request \in HttpRequests :
        LET checked == CheckRateLimitOn(request, rate_limits, blocked_ips, security_events, now)
            ip == GetClientIp(request)
            outcome == checked.last.outcome
        IN  /\ WithinRange(checked.rate_limits)
            /\ rate_limits' = checked.rate_limits
            /\ blocked_ips' = checked.blocked_ips
            /\ last' = checked.last
            /\ security_events' =
                  IF outcome = "ok"
                  THEN CheckSecurityThreats(request, checked.security_events)
                  ELSE checked.security_events
            /\ mcp_last' =
                  IF outcome = "ok"
                  THEN Served("http", ip, "GET /mcp/tools", "", 200, "",
                              <<"check_rate_limit", "check_security_threats",
                                "authenticate_request">>, AuthenticateRequest(request),
                              "none", 0)
                  ELSE IF outcome = "blocked"
                  THEN Served("http", ip, "GET /mcp/tools", "error", 200,
                              "IP address is temporarily blocked",
                              <<"check_rate_limit">>, FALSE, "none", 0)
                  ELSE Served("http", ip, "GET /mcp/tools", "", 429, "Rate limit exceeded",
                              <<"check_rate_limit">>, FALSE, "none", checked.last.retry_after)
    /\ cleanup_task' = IF cleanup_task = None THEN now + cleanup_interval ELSE cleanup_task
    /\ UNCHANGED <<now, tick, qdVars, initialized, initialize_sent, connections, authVars, scanVars>>

\* the route GET /mcp/security: its first statement reads the name
\* security_middleware, which neither the route nor the module binds; the
\* NameError is caught by "except Exception" and becomes a 200 whose body is
\* {"error": ...}; no check runs
HttpSecurityInfo ==
    /\ \E request \in HttpRequests :
          mcp_last' = Served("http", GetClientIp(request), "GET /mcp/security", "error", 200,
                             "name 'security_middleware' is not defined", <<>>, FALSE, "none", 0)
    /\ UNCHANGED <<rlVars, qdVars, initialized, initialize_sent, connections, authVars, scanVars>>

InitMCP ==
    /\ IdleRL
    /\ IdleMCP
    /\ IdleAuth
    /\ IdleScan
    /\ enable_query_validation \in BOOLEAN
    /\ query = <<>>
    /\ qd_op = NoOperation
    /\ validation = NotValidated
    /\ tool_result = NoToolResult
    /\ db_calls = <<>>
    /\ sanitized = <<>>

\* a second client connects, from another peer
OtherConnections == {"ws-2"}

WsConnectOther ==
    /\ \E conn \in OtherConnections \ connections : connections' = connections \cup {conn}
    /\ UNCHANGED <<initialized, initialize_sent, mcp_last, rlVars, qdVars, authVars, scanVars>>

\* the WebSocket endpoint with two clients on the one handler
NextSession ==
    \/ WsConnect
    \/ WsConnectOther
    \/ WsDisconnect
    \/ WsMessage

SpecSession == InitMCP /\ [][NextSession]_vars

NextMCP ==
    \/ WsConnect
    \/ WsDisconnect
    \/ WsMessage
    \/ HttpListTools
    \/ HttpSecurityInfo

SpecMCP == InitMCP /\ [][NextMCP]_vars

(***************************************************************************)
(* AuthenticationMiddleware.  Tokens, keys and user ids are strings, "" an  *)
(* absent header, parameter or claim.                                      *)
(***************************************************************************)
\* settings.supabase_service_role_key
supabase_service_role_key == "service-role-key"

\* the bearer tokens of a run
JwtTokens == {"jwt-a", "jwt-b", "jwt-c", "jwt-nosub", "not-a-jwt"}

\* the claims of a token
Claims(sub, role, exp) == [valid |-> TRUE, sub |-> sub, role |-> role, exp |-> exp]

\* jwt.decode(token, options={"verify_signature": False}): the claims of the
\* token, or InvalidTokenError
Decode(token) ==
    CASE token = "jwt-a" -> Claims("user-a", "", None)
      [] token = "jwt-b" -> Claims("user-b", "anon", 200)
      [] token = "jwt-c" -> Claims("user-c", "editor", 100)
      [] token = "jwt-nosub" -> Claims("", "authenticated", None)
      [] OTHER -> [valid |-> FALSE, sub |-> "", role |-> "", exp |-> None]

\* a permissions dict
Permissions(read, write, admin) == [read |-> read, write |-> write, admin |-> admin]

\* AuthenticationMiddleware._get_role_permissions
GetRolePermissions(role) ==
    CASE role = "anon" -> Permissions(TRUE, FALSE, FALSE)
      [] role = "authenticated" -> Permissions(TRUE, TRUE, FALSE)
      [] role = "service_role" -> Permissions(TRUE, TRUE, TRUE)
      [] OTHER -> Permissions(FALSE, FALSE, FALSE)

\* what an authentication method returns: a context, or None; and the cache
\* it leaves
Match(context, cache) == [matched |-> TRUE, context |-> context, cache |-> cache]
NoMatch(cache) == [matched |-> FALSE, context |-> Unauthenticated, cache |-> cache]

\* AuthenticationMiddleware._authenticate_api_key
AuthenticateApiKey(api_key, cache) ==
    IF api_key # "" /\ api_key = mcp_api_key
    THEN Match(AuthContext("api_user", "", TRUE, "api_key",
                           Permissions(TRUE, TRUE, FALSE), None), cache)
    ELSE NoMatch(cache)

\* AuthenticationMiddleware._authenticate_service_key
AuthenticateServiceKey(service_key, cache) ==
    IF service_key # "" /\ service_key = supabase_service_role_key
    THEN Match(AuthContext("service_role", "service_role", TRUE, "service_role",
                           Permissions(TRUE, TRUE, TRUE), None), cache)
    ELSE NoMatch(cache)

\* the cache without the entry of token
Evicted(cache, token) == [k \in (DOMAIN cache) \ {token} |-> cache[k]]

\* _get_from_cache with an entry as old as the TTL still returned
CacheHitAtTtl(cache, token, t) ==
    token \in DOMAIN cache /\ t - cache[token].cached_at <= cache_ttl

\* _get_from_cache finds an entry of token younger than the TTL
CacheHit(cache, token, t) ==
    token \in DOMAIN cache /\ t - cache[token].cached_at < cache_ttl

\* the cache after _get_from_cache: an entry found too old is deleted
AfterGetFromCache(cache, token, t) ==
    IF token \in DOMAIN cache /\ ~CacheHit(cache, token, t)
    THEN Evicted(cache, token)
    ELSE cache

\* AuthenticationMiddleware._set_cache
SetCache(cache, token, context, t) ==
    LET stored == (token :> [context |-> context, cached_at |-> t]) @@ cache
        expired_keys == { key \in DOMAIN stored : stored[key].cached_at < t - cache_ttl }
    IN  IF Cardinality(DOMAIN stored) > CacheThreshold
        THEN [key \in (DOMAIN stored) \ expired_keys |-> stored[key]]
        ELSE stored

\* AuthenticationMiddleware._authenticate_jwt_token
AuthenticateJwtToken(token, cache, t) ==
    LET looked == AfterGetFromCache(cache, token, t)
        decoded == Decode(token)
        role == IF decoded.role = "" THEN "authenticated" ELSE decoded.role
        auth_context == AuthContext(decoded.sub, role, TRUE, "jwt",
                                    GetRolePermissions(role), decoded.exp)
    IN  IF token = "" THEN NoMatch(cache)
        ELSE IF CacheHit(cache, token, t) THEN Match(cache[token].context, cache)
        ELSE IF ~decoded.valid THEN NoMatch(looked)
        ELSE IF decoded.sub = "" THEN NoMatch(looked)
        ELSE IF decoded.exp # None /\ decoded.exp < t THEN NoMatch(looked)
        ELSE Match(auth_context, SetCache(looked, token, auth_context, t))

\* _extract_api_key, _extract_jwt_token, _extract_service_key
ExtractApiKey(request) ==
    IF request.x_api_key # "" THEN request.x_api_key ELSE request.query_api_key
ExtractJwtToken(request) ==
    IF request.bearer # "" THEN request.bearer ELSE request.x_jwt_token
ExtractServiceKey(request) == request.x_service_role_key

\* authenticate_request with the service-role key tried before the API key
AuthenticateRequestServiceFirst(request, cache, t) ==
    LET service_key == ExtractServiceKey(request)
        by_service == IF service_key # ""
                      THEN AuthenticateServiceKey(service_key, cache)
                      ELSE NoMatch(cache)
        api_key == ExtractApiKey(request)
        try_key == ~by_service.matched /\ api_key # ""
        by_key == IF try_key THEN AuthenticateApiKey(api_key, cache) ELSE NoMatch(cache)
        token == ExtractJwtToken(request)
        try_jwt == ~by_service.matched /\ ~by_key.matched /\ token # ""
        by_jwt == IF try_jwt THEN AuthenticateJwtToken(token, cache, t) ELSE NoMatch(cache)
    IN  [ context |-> IF by_service.matched THEN by_service.context
                      ELSE IF by_key.matched THEN by_key.context
                      ELSE by_jwt.context,
          tried |-> (IF service_key # "" THEN <<"service_role">> ELSE <<>>)
                    \o (IF try_key THEN <<"api_key">> ELSE <<>>)
                    \o (IF try_jwt THEN <<"jwt">> ELSE <<>>),
          cache |-> by_jwt.cache ]

\* AuthenticationMiddleware.authenticate_request at instant t on the cache:
\* the context it returns, the methods it tried, in order, and the cache
AuthenticateRequestOn(request, cache, t) ==
    LET api_key == ExtractApiKey(request)
        by_key == IF api_key # "" THEN AuthenticateApiKey(api_key, cache) ELSE NoMatch(cache)
        token == ExtractJwtToken(request)
        try_jwt == ~by_key.matched /\ token # ""
        by_jwt == IF try_jwt THEN AuthenticateJwtToken(token, cache, t) ELSE NoMatch(cache)
        service_key == ExtractServiceKey(request)
        try_service == ~by_key.matched /\ ~by_jwt.matched /\ service_key # ""
        by_service == IF try_service
                      THEN AuthenticateServiceKey(service_key, by_jwt.cache)
                      ELSE NoMatch(by_jwt.cache)
    IN  [ context |-> IF by_key.matched THEN by_key.context
                      ELSE IF by_jwt.matched THEN by_jwt.context
                      ELSE by_service.context,
          tried |-> (IF api_key # "" THEN <<"api_key">> ELSE <<>>)
                    \o (IF try_jwt THEN <<"jwt">> ELSE <<>>)
                    \o (IF try_service THEN <<"service_role">> ELSE <<>>),
          cache |-> by_service.cache ]

\* require_permission with the authentication test after the permission test
RequirePermissionAfter(auth_context, permission) ==
    IF \/ permission \notin DOMAIN auth_context.permissions
       \/ ~auth_context.permissions[permission]
    THEN 403
    ELSE IF ~auth_context.is_authenticated THEN 401
    ELSE 0

\* AuthenticationMiddleware.require_permission: the status_code of the
\* AuthenticationError it raises, 0 when it returns
RequirePermission(auth_context, permission) ==
    IF ~auth_context.is_authenticated THEN 401
    ELSE IF \/ permission \notin DOMAIN auth_context.permissions
            \/ ~auth_context.permissions[permission]
    THEN 403
    ELSE 0

\* the credentials a request can carry
Credentials(x_api_key, query_api_key, bearer, x_jwt_token, x_service_role_key) ==
    [ x_api_key |-> x_api_key, query_api_key |-> query_api_key, bearer |-> bearer,
      x_jwt_token |-> x_jwt_token, x_service_role_key |-> x_service_role_key ]
AuthRequests ==
    { Credentials(x_api_key, "", bearer, "", x_service_role_key) :
        x_api_key \in {"", mcp_api_key, "wrong-key"},
        bearer \in {""} \cup JwtTokens,
        x_service_role_key \in {"", supabase_service_role_key, "wrong-key"} }
    \cup { Credentials(x_api_key, mcp_api_key, "", "", x_service_role_key) :
        x_api_key \in {"", "wrong-key"},
        x_service_role_key \in {"", supabase_service_role_key} }
    \cup { Credentials("", "", bearer, "jwt-a", x_service_role_key) :
        bearer \in {"", "jwt-b"},
        x_service_role_key \in {"", supabase_service_role_key} }

\* the contexts and permissions require_permission is called with
PermissionMaps ==
    { <<>>, Permissions(TRUE, TRUE, TRUE), Permissions(TRUE, TRUE, FALSE),
      Permissions(TRUE, FALSE, FALSE), Permissions(FALSE, FALSE, FALSE) }
PermissionContexts ==
    { AuthContext("user-a", "authenticated", is_authenticated, "jwt", permissions, None) :
        is_authenticated \in BOOLEAN, permissions \in PermissionMaps }
PermissionNames == {"read", "write", "admin", "delete"}

\* what the last call of the middleware was and did
AuthCall(op, request, context, tried, permission, raised, at) ==
    [ op |-> op, request |-> request, context |-> context, tried |-> tried,
      permission |-> permission, raised |-> raised, at |-> at ]

\* one call of authenticate_request
CallAuthenticateRequest ==
    \E request \in AuthRequests :
        LET result == AuthenticateRequestOn(request, token_cache, now)
        IN  /\ token_cache' = result.cache
            /\ auth_last' = AuthCall("authenticate_request", request, result.context,
                                     result.tried, "", 0, now)
            /\ UNCHANGED <<rlVars, qdVars, mcpVars, scanVars>>

\* one call of require_permission
CallRequirePermission ==
    \E auth_context \in PermissionContexts, permission \in PermissionNames :
        /\ auth_last' = AuthCall("require_permission", NoCredentials, auth_context, <<>>,
                                 permission, RequirePermission(auth_context, permission), now)
        /\ UNCHANGED token_cache
        /\ UNCHANGED <<rlVars, qdVars, mcpVars, scanVars>>

\* datetime.now() advances between two calls
AuthClock ==
    /\ now + AuthStep <= MaxAuthTicks * AuthStep
    /\ now' = now + AuthStep
    /\ UNCHANGED <<tick, rate_limits, blocked_ips, security_events, cleanup_task, last>>
    /\ UNCHANGED <<qdVars, mcpVars, authVars, scanVars>>

InitAuth ==
    /\ IdleRL
    /\ IdleQD
    /\ IdleMCP
    /\ IdleAuth
    /\ IdleScan

NextAuth ==
    \/ CallAuthenticateRequest
    \/ CallRequirePermission
    \/ AuthClock

SpecAuth == InitAuth /\ [][NextAuth]_vars

(***************************************************************************)
(* Properties of the authentication middleware.                            *)
(***************************************************************************)
\* the call that just returned is authenticate_request
Authenticated == auth_last.op = "authenticate_request"

\* the position of a method in the list of the methods tried, 0 when it was
\* not tried
TriedAt(method) ==
    IF \E i \in DOMAIN auth_last.tried : auth_last.tried[i] = method
    THEN CHOOSE i \in DOMAIN auth_last.tried : auth_last.tried[i] = method
    ELSE 0

\* C12: authenticate_request tries the API key, then the bearer/JWT token,
\* then the service-role key, each only when it is presented and no earlier
\* one matched, and returns the first match: the configured API key gives the
\* api_key context with read and write and without admin, whatever else the
\* request carries; an API key that does not match falls through; when
\* nothing matches the context is the unauthenticated one; no error is raised.
C12_FirstMatchWins ==
    Authenticated =>
        LET request == auth_last.request
            context == auth_last.context
            api_key == ExtractApiKey(request)
            token == ExtractJwtToken(request)
            service_key == ExtractServiceKey(request)
            tried == auth_last.tried
        IN  /\ auth_last.raised = 0
            /\ \A i, j \in DOMAIN tried : i < j =>
                   \/ tried[i] = "api_key" /\ tried[j] \in {"jwt", "service_role"}
                   \/ tried[i] = "jwt" /\ tried[j] = "service_role"
            /\ (TriedAt("api_key") # 0) = (api_key # "")
            /\ api_key = mcp_api_key =>
                   /\ tried = <<"api_key">>
                   /\ context = AuthContext("api_user", "", TRUE, "api_key",
                                            Permissions(TRUE, TRUE, FALSE), None)
            /\ (TriedAt("jwt") # 0) = (api_key # mcp_api_key /\ token # "")
            /\ (TriedAt("service_role") # 0) =
                   (api_key # mcp_api_key /\ service_key # "" /\ context.auth_method # "jwt")
            /\ context.is_authenticated =>
                   /\ tried # <<>>
                   /\ context.auth_method = tried[Len(tried)]
            /\ (TriedAt("service_role") # 0 /\ service_key = supabase_service_role_key) =>
                   context = AuthContext("service_role", "service_role", TRUE, "service_role",
                                         Permissions(TRUE, TRUE, TRUE), None)
            /\ ( /\ api_key # mcp_api_key
                 /\ token = "" \/ ~Decode(token).valid \/ Decode(token).sub = ""
                 /\ service_key # supabase_service_role_key ) =>
                   context = Unauthenticated

\* the configured API key came with the configured service-role key and the
\* context is the one of the API key
C12_Witness ==
    /\ Authenticated
    /\ ExtractApiKey(auth_last.request) = mcp_api_key
    /\ ExtractServiceKey(auth_last.request) = supabase_service_role_key
    /\ auth_last.context.auth_method = "api_key"

\* C13: a call of JWT authentication made when the exp instant of the token
\* is already past returns no match, whatever authentications with the same
\* token came before.
C13_ExpiredJwtNeverMatches ==
    LET token == ExtractJwtToken(auth_last.request)
    IN  ( /\ Authenticated
          /\ TriedAt("jwt") # 0
          /\ Decode(token).valid
          /\ Decode(token).sub # ""
          /\ Decode(token).exp # None
          /\ Decode(token).exp < auth_last.at ) =>
            auth_last.context.auth_method # "jwt"

\* C14: require_permission raises with status 401 for every unauthenticated
\* context, whatever the permission asked for and whatever the permission map
\* of the context holds; with status 403 for an authenticated context whose
\* map does not hold true for the permission; and returns only for an
\* authenticated context whose map holds true for the permission.
C14_RequirePermission ==
    auth_last.op = "require_permission" =>
        LET context == auth_last.context
            granted == \E name \in DOMAIN context.permissions :
                           name = auth_last.permission /\ context.permissions[name]
        IN  /\ ~context.is_authenticated => auth_last.raised = 401
            /\ (context.is_authenticated /\ ~granted) => auth_last.raised = 403
            /\ auth_last.raised = 0 <=> (context.is_authenticated /\ granted)

\* an unauthenticated context whose map grants the permission was refused
C14_Witness ==
    /\ auth_last.op = "require_permission"
    /\ ~auth_last.context.is_authenticated
    /\ auth_last.context.permissions = Permissions(TRUE, TRUE, TRUE)
    /\ auth_last.permission = "admin"
    /\ auth_last.raised = 401

\* a step is a call of authenticate_request that reached JWT authentication
JwtStep ==
    /\ now' = now
    /\ auth_last'.op = "authenticate_request"
    /\ auth_last'.at = now
    /\ \E i \in DOMAIN auth_last'.tried : auth_last'.tried[i] = "jwt"

\* C18: the cached context of a token is returned only while less than the
\* TTL of 5 minutes has passed since it was cached; a lookup at or after the
\* TTL removes the entry, and the token is decoded afresh; a token that fails
\* JWT authentication is not in the cache afterwards.
C18_CacheTtl ==
    [][ JwtStep =>
          LET token == ExtractJwtToken(auth_last'.request)
              context == auth_last'.context
              fresh == /\ Decode(token).valid
                       /\ Decode(token).sub # ""
                       /\ Decode(token).exp = None \/ Decode(token).exp >= now
          IN  /\ (token \in DOMAIN token_cache /\ now - token_cache[token].cached_at < cache_ttl) =>
                    /\ context = token_cache[token].context
                    /\ token_cache' = token_cache
              /\ (token \in DOMAIN token_cache /\ now - token_cache[token].cached_at >= cache_ttl) =>
                    IF fresh
                    THEN /\ token \in DOMAIN token_cache'
                         /\ token_cache'[token].cached_at = now
                         /\ context = token_cache'[token].context
                    ELSE /\ token \notin DOMAIN token_cache'
                         /\ context.auth_method # "jwt"
              /\ context.auth_method # "jwt" => token \notin DOMAIN token_cache'
              /\ \A key \in DOMAIN token_cache' :
                    Decode(key).valid /\ Decode(key).sub # ""
      ]_vars

\* a token cached a TTL ago has just been looked up, removed and not accepted
C18_Witness ==
    LET token == ExtractJwtToken(auth_last.request)
    IN  /\ Authenticated
        /\ TriedAt("jwt") # 0
        /\ auth_last.at = cache_ttl
        /\ Decode(token).valid /\ Decode(token).sub # ""
        /\ Decode(token).exp # None
        /\ ~auth_last.context.is_authenticated
        /\ token \notin DOMAIN token_cache

\* C19: the token cache is bounded: after any sequence of authentications,
\* many distinct tokens within one TTL included, it holds no more entries
\* than the eviction threshold and the entry just inserted.
C19_CacheBounded ==
    Cardinality(DOMAIN token_cache) <= CacheThreshold + 1

(***************************************************************************)
(* Properties of the front.                                                *)
(***************************************************************************)
\* check is among the admission checks that ran for the last request
Ran(check) == \E i \in 1..Len(mcp_last.admission) : mcp_last.admission[i] = check

\* C1: a request whose tool body runs, on the WebSocket as on HTTP, has first
\* gone through the rate-limit check and through authentication.
C1_AdmissionBeforeToolBody ==
    mcp_last.tool_body # "none" =>
        /\ Ran("check_rate_limit")
        /\ Ran("authenticate_request")

\* C17: on the HTTP routes every rejection by the rate limiter, for an
\* exceeded window as for a blocked address, is answered with status 429 and
\* a Retry-After header, never with a 200 that carries an error body.
C17_HttpRejectionIs429 ==
    ( /\ mcp_last.channel = "http"
      /\ Ran("check_rate_limit")
      /\ last.op = "check_rate_limit"
      /\ last.outcome # "ok" ) =>
        /\ mcp_last.code = 429
        /\ mcp_last.retry_after > 0

\* a step is one message handled on the WebSocket
WsStep ==
    /\ mcp_last'.channel = "ws"
    /\ connections' = connections

\* the methods whose handlers test self._initialized
GatedMethods == {"tools/list", "tools/call", "resources/list", "resources/read"}

\* C20: until an initialize request has succeeded on the handler, tools/list,
\* tools/call, resources/list and resources/read are answered with the error
\* "Session not initialized" and run no handler body; after it they are no
\* longer refused for that reason, the two list methods return a result and a
\* well-formed call of a registered tool runs the tool; an initialize
\* request that fails leaves the handler as it was, and nothing but a
\* successful initialize request makes the handler initialized.
C20_InitializationGate ==
    [][ WsStep =>
          LET response == mcp_last'
          IN  /\ (response.method \in GatedMethods /\ ~initialized) =>
                    /\ response.code # 0
                    /\ response.message = "Session not initialized"
                    /\ response.tool_body = "none"
                    /\ UNCHANGED qdVars
              /\ (response.method \in GatedMethods /\ initialized) =>
                    /\ response.message # "Session not initialized"
                    /\ response.method \in {"tools/list", "resources/list"} => response.code = 0
                    /\ response.method = "resources/read" =>
                          response.message \in {"Resource not found", "validation error"}
                    /\ response.method = "tools/call" =>
                          \/ response.code = 0 /\ response.tool_body \in RegisteredTools
                          \/ response.message \in {"Unknown tool", "validation error"}
              /\ initialized' = (initialized \/ (response.method = "initialize" /\ response.code = 0))
              /\ (response.method = "initialize" /\ response.code # 0) => UNCHANGED initialized
      ]_vars

\* a tools/call request was refused on a handler that is not initialized
C20_Witness ==
    /\ ~initialized
    /\ mcp_last.channel = "ws"
    /\ mcp_last.method = "tools/call"
    /\ mcp_last.message = "Session not initialized"

\* C30: the handler has one initialized flag for all connections, set by the
\* first successful initialize and never cleared, by a disconnect or
\* otherwise; once some connection's initialize has succeeded, tools/list and
\* a well-formed call of a registered tool are served on every connection,
\* those that never sent a successful initialize included, whether or not
\* the initializing connection is still open.
C30_SharedSessionFlag ==
    [][ /\ initialized => initialized'
        /\ initialized' = (initialize_sent' # {})
        /\ \A conn \in Connections \cup OtherConnections :
              ( /\ WsStep
                /\ mcp_last'.client_ip = Peer(conn)
                /\ initialize_sent # {}
                /\ conn \notin initialize_sent
                /\ mcp_last'.method \in {"tools/list", "tools/call"} ) =>
                  LET response == mcp_last'
                  IN  /\ response.message # "Session not initialized"
                      /\ response.method = "tools/list" => response.code = 0
                      /\ response.method = "tools/call" =>
                            \/ response.code = 0 /\ response.tool_body \in RegisteredTools
                            \/ response.message \in {"Unknown tool", "validation error"}
      ]_vars

\* the first connection initialized the handler and is closed, and a tool call
\* on the second connection, which sent no successful initialize, was served
C30_Witness ==
    /\ initialized
    /\ initialize_sent = {"ws-1"}
    /\ connections = {"ws-2"}
    /\ mcp_last.channel = "ws"
    /\ mcp_last.client_ip = Peer("ws-2")
    /\ mcp_last.method = "tools/call"
    /\ mcp_last.code = 0
    /\ mcp_last.tool_body \in RegisteredTools

\* the methods handle_request routes to a handler
RoutedMethods == {"initialize", "tools/list", "tools/call", "resources/list", "resources/read"}

\* C21: a message that cannot be parsed is answered with -32700, a request
\* with an unknown method with -32601; a tool whose body fails is answered
\* with a result (no error member) whose is_error is true; and the response
\* to a parsed request carries the id of the request.
C21_ProtocolErrorCodes ==
    mcp_last.channel = "ws" =>
        /\ mcp_last.method = "<malformed>" => mcp_last.code = -32700
        /\ (mcp_last.method # "<malformed>" /\ mcp_last.method \notin RoutedMethods) =>
              mcp_last.code = -32601
        /\ mcp_last.code \in {0, -32700, -32601, -32603}
        /\ mcp_last.tool_body # "none" => mcp_last.code = 0
        /\ mcp_last.method # "<malformed>" => mcp_last.id = "1"

\* the place of a check among the admission checks that ran for the last
\* request, 0 when it did not run
RanAt(check) ==
    IF Ran(check)
    THEN CHOOSE i \in 1..Len(mcp_last.admission) : mcp_last.admission[i] = check
    ELSE 0

\* C22: on an HTTP endpoint that runs the admission checks the threat scan
\* runs before the rate-limit check, so a request the rate limiter rejects
\* has been scanned, and authentication runs only after the rate limiter
\* accepted.
C22_ScanBeforeRateLimit ==
    (mcp_last.channel = "http" /\ Ran("check_rate_limit")) =>
        /\ Ran("check_security_threats")
        /\ RanAt("check_security_threats") < RanAt("check_rate_limit")
        /\ Ran("authenticate_request") =>
              /\ last.outcome = "ok"
              /\ RanAt("check_rate_limit") < RanAt("authenticate_request")

(***************************************************************************)
(* Properties of the query_database tool and of validate_query.            *)
(***************************************************************************)
\* the last operation was this one and validate_query returned a result in it
Returned(name) == qd_op.name = name /\ validation.raised = ""

\* some text item of the tool's result lists exactly these items
Lists(items) ==
    \E i \in 1..Len(tool_result.content) : tool_result.content[i].items = items

\* C2: when validate_query reports the query of a query_database call invalid,
\* the call returns an error result that carries the issue list and
\* execute_query is not invoked, whatever force_execute is.
C2_InvalidNeverExecuted ==
    (Returned("query_database") /\ ~validation.is_valid) =>
        /\ tool_result.is_error
        /\ validation.issues # <<>>
        /\ Lists(validation.issues)
        /\ db_calls = <<>>

C2_Witness ==
    /\ Returned("query_database")
    /\ ~validation.is_valid
    /\ qd_op.force_execute
    /\ tool_result.is_error
    /\ db_calls = <<>>

\* C8: a valid query that requires confirmation and comes without
\* force_execute gets a non-error confirmation result and no database call;
\* otherwise a valid query is executed, with the sanitized text when
\* validate_query produced one and with the original text when it produced
\* none.
C8_ConfirmationAndExecutedText ==
    (Returned("query_database") /\ validation.is_valid) =>
        IF validation.requires_confirmation /\ ~qd_op.force_execute
        THEN /\ ~tool_result.is_error
             /\ Lists(<<validation.risk_level>>)
             /\ db_calls = <<>>
        ELSE db_calls = << IF validation.sanitized_query # NoQuery
                           THEN validation.sanitized_query
                           ELSE query >>

\* the text has a comment marker, -- or /*
HasCommentMarker(q) == ContainsPair(q, "-", "-") \/ ContainsPair(q, "/", "*")

\* the text has an injection marker: a comment marker, an odd number of single
\* quotes, or a match of one of the injection signatures
HasInjectionMarker(q) ==
    \/ HasCommentMarker(q)
    \/ CountQuotes(q) % 2 # 0
    \/ \E i \in 1..Len(injection_patterns) : MatchesPattern(Upper(q), injection_patterns[i])

\* C9: validate_query reports every query that has an injection marker invalid
\* with risk_level dangerous, for both values of allow_modifications.
C9_InjectionMarkerInvalidDangerous ==
    (Returned("validate_query") /\ HasInjectionMarker(query)) =>
        /\ ~validation.is_valid
        /\ validation.risk_level = "dangerous"

\* the severity order safe < low < medium < high < dangerous
Severity(level) ==
    CASE level = "safe" -> 0
      [] level = "low" -> 1
      [] level = "medium" -> 2
      [] level = "high" -> 3
      [] level = "dangerous" -> 4

\* what the dangerous-operation scan of validate_query finds in the text
DangerousFindings(q) == CheckDangerousOperations(NormalizeQuery(Strip(q)))

\* C10: for a query without injection marker in which the dangerous-operation
\* scan finds something: with allow_modifications the findings are warnings,
\* the query is valid, risk_level is at least high and requires_confirmation
\* is true; without it the findings are issues, the query is invalid,
\* risk_level is dangerous and requires_confirmation is false.
C10_DangerousOperationOutcome ==
    (/\ Returned("validate_query")
     /\ ~HasInjectionMarker(query)
     /\ DangerousFindings(query) # <<>>) =>
        IF qd_op.allow_modifications
        THEN /\ validation.is_valid
             /\ validation.issues = <<>>
             /\ SubSeq(validation.warnings, 1, Len(DangerousFindings(query)))
                    = DangerousFindings(query)
             /\ Severity(validation.risk_level) >= Severity("high")
             /\ validation.requires_confirmation
        ELSE /\ ~validation.is_valid
             /\ validation.issues = DangerousFindings(query)
             /\ validation.risk_level = "dangerous"
             /\ ~validation.requires_confirmation

\* the level each scan of validate_query asks for when it finds something
TriggeredLevels(q, allow) ==
    LET n == NormalizeQuery(Strip(q)) IN
    {"safe"}
    \cup (IF CheckSqlInjection(n) # <<>> THEN {"dangerous"} ELSE {})
    \cup (IF CheckDangerousOperations(n) # <<>>
         THEN {IF allow THEN "high" ELSE "dangerous"} ELSE {})
    \cup (IF CheckProtectedSchemas(n) # <<>> THEN {"medium"} ELSE {})
    \cup (IF CheckQueryComplexity(n) # <<>> THEN {"low"} ELSE {})

\* C11: the risk_level validate_query returns is the maximum, under
\* safe < low < medium < high < dangerous, of the levels of the scans that
\* found something.
C11_RiskIsMaximumOfTriggered ==
    Returned("validate_query") =>
        /\ validation.risk_level \in TriggeredLevels(query, qd_op.allow_modifications)
        /\ \A level \in TriggeredLevels(query, qd_op.allow_modifications) :
              Severity(level) <= Severity(validation.risk_level)

\* C24: the protected-schema scan and the complexity scan only warn: a query
\* in which no other scan finds anything is valid with no issues, its
\* findings are warnings, and its risk_level is at least medium when a
\* protected schema is referenced and at least low when only a complexity
\* rule fired.
C24_WarningScansNeverBlock ==
    LET n == NormalizeQuery(Strip(query)) IN
    ( /\ Returned("validate_query")
      /\ CheckSqlInjection(n) = <<>>
      /\ CheckDangerousOperations(n) = <<>>
      /\ CheckProtectedSchemas(n) # <<>> \/ CheckQueryComplexity(n) # <<>> ) =>
        /\ validation.is_valid
        /\ validation.issues = <<>>
        /\ validation.warnings # <<>>
        /\ CheckProtectedSchemas(n) # <<>> =>
              Severity(validation.risk_level) >= Severity("medium")
        /\ CheckProtectedSchemas(n) = <<>> =>
              Severity(validation.risk_level) >= Severity("low")

\* the number of semicolons in the run of semicolons and whitespace that ends
\* the text
RECURSIVE TrailingSemicolons(_)
TrailingSemicolons(q) ==
    IF q = <<>> THEN 0
    ELSE IF q[Len(q)] = ";" THEN 1 + TrailingSemicolons(SubSeq(q, 1, Len(q) - 1))
    ELSE IF IsSpace(q[Len(q)]) THEN TrailingSemicolons(SubSeq(q, 1, Len(q) - 1))
    ELSE 0

\* the text without its comments
Uncommented(q) == RemoveBlockComments(RemoveLineComments(q))

\* C15: _sanitize_query returns a text without comment marker, with exactly
\* one trailing semicolon when the query, comments aside, ended with
\* semicolons, and sanitizing its result again changes nothing.
C15_SanitizeOneSemicolonIdempotent ==
    qd_op.name = "sanitize_query" =>
        /\ ~HasCommentMarker(sanitized[1])
        /\ TrailingSemicolons(Uncommented(query)) > 0 =>
              TrailingSemicolons(sanitized[1]) = 1
        /\ sanitized[2] = sanitized[1]

\* C16: validate_query on an empty or whitespace-only query returns, without
\* raising, an invalid result with risk_level safe and the one issue that the
\* query cannot be empty.
C16_EmptyQueryResult ==
    (qd_op.name = "validate_query" /\ Strip(query) = <<>>) =>
        /\ validation.raised = ""
        /\ ~validation.is_valid
        /\ validation.risk_level = "safe"
        /\ Len(validation.issues) = 1
        /\ validation.warnings = <<>>

(***************************************************************************)
(* Properties of the rate limiter.                                         *)
(***************************************************************************)
\* a step that is one call of check_rate_limit with this request (the first
\* two conjuncts follow from the last two and are cheap to refute)
CheckStep(request) ==
    /\ last'.op = "check_rate_limit"
    /\ last'.client_ip = GetClientIp(request)
    /\ UNCHANGED <<now, tick, cleanup_task>>
    /\ CheckRateLimit(request)

\* the timestamps of ip that lie in the window ending now
InWindow(rl, ip, t) ==
    IF ip \in DOMAIN rl THEN PopOld(rl[ip].requests, t - rate_limit_window) ELSE <<>>

\* the address ranges 127/8, 10/8, 172.16/12 and 192.168/16, octet by octet
InTrustedRange(ip) ==
    /\ IsAddress(ip)
    /\ \/ ip[1] = 127
       \/ ip[1] = 10
       \/ ip[1] = 172 /\ ip[2] >= 16 /\ ip[2] <= 31
       \/ ip[1] = 192 /\ ip[2] = 168

\* every request ip has made so far was accepted within the window ending now
\* (ip without a record has made none)
FreshInWindow(ip) ==
    /\ ~InTrustedRange(ip)
    /\ ip \notin blocked_ips
    /\ ip \in DOMAIN rate_limits =>
         /\ rate_limits[ip].blocked_requests = 0
         /\ rate_limits[ip].blocked_until = None
         /\ rate_limits[ip].total_requests = Len(rate_limits[ip].requests)
         /\ rate_limits[ip].first_request >= now - rate_limit_window

\* C3: for an untrusted IP whose requests so far all lie in the current window,
\* a call succeeds while fewer than max_requests_per_window were made, and the
\* call after max_requests_per_window of them fails with RateLimitExceeded
\* whose retry_after is the window length, 60 seconds.
C3_WindowLimit ==
    [][\A request \in Requests :
        LET ip == GetClientIp(request) IN
        (FreshInWindow(ip) /\ CheckStep(request)) =>
            IF RateInfo(ip).total_requests < max_requests_per_window
            THEN last'.outcome = "ok"
            ELSE /\ RateInfo(ip).total_requests = max_requests_per_window
                 /\ last'.outcome = "rate_limit_exceeded"
                 /\ last'.retry_after = 60]_vars

C3_Witness ==
    /\ last.op = "check_rate_limit"
    /\ last.outcome = "rate_limit_exceeded"
    /\ last.client_ip = PublicIP
    /\ PublicIP \in DOMAIN rate_limits
    /\ rate_limits[PublicIP].total_requests = max_requests_per_window
    /\ Len(rate_limits[PublicIP].requests) = max_requests_per_window
    /\ rate_limits[PublicIP].first_request >= now - rate_limit_window
    /\ rate_limits[PublicIP].blocked_requests = 1

\* C4: an IP that was blocked after max_violations_before_block rejections is
\* rejected as Blocked by every call made before its blocked_until, and by no
\* call made after its blocked_until.
C4_BlockedExactlyBlockDuration ==
    [][\A request \in Requests :
        LET ip == GetClientIp(request) IN
        (/\ ip \in DOMAIN rate_limits
         /\ rate_limits[ip].blocked_until # None
         /\ CheckStep(request)) =>
            /\ now < rate_limits[ip].blocked_until => last'.outcome = "blocked"
            /\ now > rate_limits[ip].blocked_until => last'.outcome # "blocked"]_vars

\* C5: calls of check_rate_limit and sweeps interleaved in any order lose no
\* update: the timestamps of an IP in the current window never number more
\* than max_requests_per_window, an accepted call adds exactly its own
\* timestamp and one to total_requests, and a sweep takes no timestamp of the
\* current window and no count away from a record it keeps.
C5_NoLostUpdate ==
    [][/\ \A ip \in DOMAIN rate_limits' :
            Len(InWindow(rate_limits', ip, now')) <= max_requests_per_window
       /\ \A request \in Requests :
            LET ip == GetClientIp(request) IN
            (~InTrustedRange(ip) /\ last'.outcome = "ok" /\ CheckStep(request)) =>
                /\ rate_limits'[ip].requests = Append(InWindow(rate_limits, ip, now), now)
                /\ rate_limits'[ip].total_requests = RateInfo(ip).total_requests + 1
       /\ CleanupLoop =>
            \A ip \in DOMAIN rate_limits :
                /\ InWindow(rate_limits, ip, now) # <<>> => ip \in DOMAIN rate_limits'
                /\ ip \in DOMAIN rate_limits' =>
                     /\ InWindow(rate_limits', ip, now) = InWindow(rate_limits, ip, now)
                     /\ rate_limits'[ip].total_requests = rate_limits[ip].total_requests]_vars

C5_Witness ==
    /\ last.op = "cleanup"
    /\ PublicIP \in DOMAIN rate_limits
    /\ Len(InWindow(rate_limits, PublicIP, now)) = max_requests_per_window
    /\ rate_limits[PublicIP].total_requests > max_requests_per_window

\* C6: a call of check_rate_limit from an address in a trusted range succeeds
\* and changes no record, no blocked-set entry and no security event, and no
\* address of a trusted range is ever in the record store or the blocked set.
C6_TrustedBypass ==
    [][/\ \A request \in Requests :
            (InTrustedRange(GetClientIp(request)) /\ CheckStep(request)) =>
                /\ last'.outcome = "ok"
                /\ UNCHANGED <<rate_limits, blocked_ips, security_events>>
       /\ \A ip \in (DOMAIN rate_limits') \cup blocked_ips' : ~InTrustedRange(ip)]_vars

C6_Witness ==
    /\ last.op = "check_rate_limit"
    /\ last.outcome = "ok"
    /\ last.client_ip = <<172, 31, 255, 255>>
    /\ PublicIP \in blocked_ips

\* C7: after a run of the sweep no IP whose blocked_until has passed is left in
\* the blocked set, the record of every IP it unblocks has blocked_until
\* cleared and the violation counter at 0, and every record with no timestamp
\* left and a last activity more than an hour old is gone.
C7_SweepPostcondition ==
    [][CleanupLoop =>
        /\ \A ip \in blocked_ips :
             (ip \in DOMAIN rate_limits /\ rate_limits[ip].blocked_until # None
                /\ now > rate_limits[ip].blocked_until) => ip \notin blocked_ips'
        /\ \A ip \in blocked_ips \ blocked_ips' :
             ip \in DOMAIN rate_limits' =>
                /\ rate_limits'[ip].blocked_until = None
                /\ rate_limits'[ip].blocked_requests = 0
        /\ \A ip \in DOMAIN rate_limits' :
             ~ /\ rate_limits'[ip].requests = <<>>
               /\ rate_limits'[ip].last_request # None
               /\ rate_limits'[ip].last_request < now - 3600]_vars

\* C23: a call from an IP in the blocked set, made before its blocked_until,
\* is rejected with a retry-after of the seconds that remain until
\* blocked_until, after one blocked_request event of medium severity has been
\* appended to the event log.
C23_BlockedRetryAfterRemaining ==
    [][\A request \in Requests :
        LET ip == GetClientIp(request) IN
        (/\ ip \in blocked_ips
         /\ ip \in DOMAIN rate_limits
         /\ rate_limits[ip].blocked_until # None
         /\ now < rate_limits[ip].blocked_until
         /\ CheckStep(request)) =>
            /\ last'.outcome = "blocked"
            /\ security_events' =
                  RingAppend(security_events, SecurityEvent(ip, "blocked_request", "medium"))
            /\ last'.retry_after = rate_limits[ip].blocked_until - now]_vars

\* the number of events of a type among those the last scan logged
Logged(type) ==
    Cardinality({ i \in DOMAIN scan_last.logged : scan_last.logged[i].event_type = type })

\* the last n entries of a list
LastOf(events, n) ==
    IF Len(events) <= n THEN events ELSE SubSeq(events, Len(events) - n + 1, Len(events))

\* a step is one call of check_security_threats
ScanStep == last'.op = "check_security_threats" /\ scan_last'.request \in ThreatRequests

\* C25: check_security_threats only observes: a call returns without
\* rejecting, leaves every rate-limit record and the blocked set as they
\* were, and appends its events to the event log: one suspicious_user_agent
\* event at most, and for each of the three URL pattern families one event
\* exactly when a pattern of the family occurs in the URL, whatever the other
\* families find.
C25_ThreatScanObserves ==
    [][ ScanStep =>
          LET url == scan_last'.request.query_string
              logged == scan_last'.logged
              Count(type) ==
                  Cardinality({ i \in DOMAIN logged : logged[i].event_type = type })
              Occurs(patterns) == \E i \in DOMAIN url : url[i] \in patterns
          IN  /\ last'.outcome = "ok"
              /\ UNCHANGED <<rate_limits, blocked_ips, now, cleanup_task>>
              /\ security_events' = LastOf(security_events \o logged, MaxEvents)
              /\ Count("suspicious_user_agent") <= 1
              /\ Count("sql_injection_attempt") = IF Occurs(sql_patterns) THEN 1 ELSE 0
              /\ Count("xss_attempt") = IF Occurs(xss_patterns) THEN 1 ELSE 0
              /\ Count("path_traversal_attempt") = IF Occurs(traversal_patterns) THEN 1 ELSE 0
      ]_vars

\* a scan of a URL with patterns of two families has logged an event for
\* each, while a record and a blocked address exist
C25_Witness ==
    /\ last.op = "check_security_threats"
    /\ Logged("sql_injection_attempt") = 1
    /\ Logged("xss_attempt") = 1
    /\ rate_limits # <<>>
    /\ blocked_ips # {}

\* C26: the blocked set and the record store agree in every reachable state:
\* an IP is in the blocked set exactly when it has a record whose
\* blocked_until is set; so no call is answered rate_limit_blocked and no IP
\* is in the blocked set without a record the sweep can unblock it by.
C26_BlockedSetAgreesWithRecords ==
    /\ \A ip \in blocked_ips :
          ip \in DOMAIN rate_limits /\ rate_limits[ip].blocked_until # None
    /\ \A ip \in DOMAIN rate_limits :
          rate_limits[ip].blocked_until # None => ip \in blocked_ips
    /\ last.outcome # "rate_limit_blocked"

\* C27: the violation counter of a record is cumulative: no accepted call and
\* no rolling over of the window lowers it; it returns to 0 only when the
\* sweep unblocks the IP, and a record disappears only in the sweep; so the
\* rejection that brings the counter to max_violations_before_block blocks
\* the IP, however the rejections were spread over windows.
C27_ViolationsCumulative ==
    [][ /\ \A ip \in DOMAIN rate_limits :
              IF ip \in DOMAIN rate_limits'
              THEN \/ rate_limits'[ip].blocked_requests >= rate_limits[ip].blocked_requests
                   \/ /\ last'.op = "cleanup"
                      /\ ip \in blocked_ips \ blocked_ips'
                      /\ rate_limits'[ip].blocked_requests = 0
              ELSE last'.op = "cleanup"
        /\ \A ip \in DOMAIN rate_limits' :
              rate_limits'[ip].blocked_requests >= max_violations_before_block =>
                  /\ ip \in blocked_ips'
                  /\ rate_limits'[ip].blocked_until # None
      ]_vars

\* a call was accepted in a later window than the first request of its IP
\* and the violations counted before are still counted
C27_Witness ==
    /\ last.op = "check_rate_limit"
    /\ last.outcome = "ok"
    /\ last.client_ip \in DOMAIN rate_limits
    /\ rate_limits[last.client_ip].blocked_requests > 0
    /\ rate_limits[last.client_ip].last_request = now
    /\ rate_limits[last.client_ip].first_request < now - rate_limit_window

\* requests is what is left of old when entries are taken from its front
IsSuffix(requests, old) ==
    /\ Len(requests) <= Len(old)
    /\ requests = SubSeq(old, Len(old) - Len(requests) + 1, Len(old))

\* what a rejected call of an IP leaves alone: nothing is appended to the
\* timestamps, and total_requests, first_request and last_request stay
RejectedFrame(ip) ==
    LET before == RateInfo(ip)
        after == RateInfoOf(rate_limits', ip)
    IN  /\ IsSuffix(after.requests, before.requests)
        /\ after.total_requests = before.total_requests
        /\ after.first_request = before.first_request
        /\ after.last_request = before.last_request

\* what an accepted call of an IP leaves alone: the violation counter,
\* blocked_until and the blocked set
AcceptedFrame(ip) ==
    LET before == RateInfo(ip)
        after == RateInfoOf(rate_limits', ip)
    IN  /\ after.total_requests = before.total_requests + 1
        /\ after.blocked_requests = before.blocked_requests
        /\ after.blocked_until = before.blocked_until
        /\ blocked_ips' = blocked_ips

\* C28 as stated: a rejected call appends nothing to the timestamps and
\* leaves total_requests, first_request and last_request unchanged; an
\* accepted call makes the timestamp sequence longer by one and adds one to
\* total_requests, and leaves the violation counter, blocked_until and the
\* blocked set unchanged.
C28_AsStated ==
    [][\A request \in Requests :
        LET ip == GetClientIp(request) IN
        (~IsTrustedIp(ip) /\ CheckStep(request)) =>
            IF last'.outcome = "ok"
            THEN /\ AcceptedFrame(ip)
                 /\ Len(RateInfoOf(rate_limits', ip).requests) = Len(RateInfo(ip).requests) + 1
            ELSE RejectedFrame(ip)]_vars

\* C28, amended: as stated, except that the timestamp sequence after an
\* accepted call is the part of the old one that lies in the window, with the
\* instant of the call appended.
C28_FrameOfCheckRateLimit ==
    [][\A request \in Requests :
        LET ip == GetClientIp(request) IN
        (~IsTrustedIp(ip) /\ CheckStep(request)) =>
            IF last'.outcome = "ok"
            THEN /\ AcceptedFrame(ip)
                 /\ RateInfoOf(rate_limits', ip).requests =
                       Append(InWindow(rate_limits, ip, now), now)
            ELSE RejectedFrame(ip)]_vars

\* a call was accepted whose record held only timestamps that had left the
\* window
C28_Witness ==
    /\ last.op = "check_rate_limit"
    /\ last.outcome = "ok"
    /\ now < cleanup_cutoff
    /\ last.client_ip \in DOMAIN rate_limits
    /\ rate_limits[last.client_ip].requests = <<now>>
    /\ rate_limits[last.client_ip].total_requests > 1

\* a call of check_rate_limit for request, whatever key it is counted under
KeyStep(request) ==
    /\ last'.op = "check_rate_limit"
    /\ UNCHANGED <<now, tick, cleanup_task>>
    /\ CheckRateLimit(request)

\* the address a request's forwarding headers give: the first item of the
\* first header, in the order x-forwarded-for, x-real-ip, whose first item is
\* an IP address; Absent when no header gives one
ForwardedAddress(request) ==
    LET given == { h \in {request.xff, request.xri} : h # Absent /\ IsAddress(h[1]) }
    IN  IF request.xff \in given THEN request.xff[1]
        ELSE IF request.xri \in given THEN request.xri[1]
        ELSE Absent

====
